---- MODULE Spec2Model ----
(***************************************************************************)
(* Verification model of the kaapi-frontend evaluation console:            *)
(*   - the two proxy route handlers (GET /api/evaluations/[id] and         *)
(*     GET /api/assistant/[assistant_id]),                                 *)
(*   - the evaluations page with its ResultsTab polling loop,              *)
(*   - the score-object type guards of components/types.ts,                *)
(*   - the Datasets page with its CSV row counter and its local store.     *)
(* Each part has its own specification over its own variables; the         *)
(* variables of the other parts stay at their initial values.              *)
(***************************************************************************)
EXTENDS Integers, Sequences, FiniteSets, TLC

VARIABLES
    \* ---- proxy route handlers (route.ts) ----
    useMockData,     \* the build-time flag USE_MOCK_DATA
    proxyPc,         \* position of the handler: idle, fetching, parsing, responded
    request,         \* the request being served: handler, apiKey header, id
    upstream,        \* what the backend answered to the outbound fetch
    response,        \* the NextResponse returned to the caller
    outboundCalls,   \* outbound fetch() calls made while serving the request
    fixtureReads,    \* fixture files read while serving the request, with the outcome
    \* ---- evaluations page (page.tsx) ----
    activeTab,       \* SimplifiedEval.activeTab
    apiKeys,         \* SimplifiedEval.apiKeys (ids of the stored keys)
    selectedKeyId,   \* SimplifiedEval.selectedKeyId
    evalJobs,        \* ResultsTab.evalJobs: the stored snapshot, one status per job
    isLoading,       \* ResultsTab.isLoading
    error,           \* ResultsTab.error
    intervals,       \* number of live setInterval timers of ResultsTab
    outstanding,     \* GET /api/evaluations requests awaiting their answer, in issue order
    lastEvent,       \* the last thing that happened in the results view
    \* ---- score objects (types.ts) ----
    job,             \* an EvalJob as parsed from a backend answer: its score and scores fields
    guardResult,     \* the last call of the type guards: argument and returned values
    resolved,        \* the last call of getScoreObject on the job: the returned value
    \* ---- rendering (DetailedResultsTable.tsx, EvalJobCard of page.tsx) ----
    renderJob,       \* the job handed to the components: score and scores with their content
    tableView,       \* what DetailedResultsTable rendered for renderJob
    cardView,        \* what the header of EvalJobCard rendered for renderJob
    \* ---- upload and evaluation form (SimplifiedEval of page.tsx) ----
    uploadedFile,    \* SimplifiedEval.uploadedFile: the chosen file, by its name
    datasetId,       \* SimplifiedEval.datasetId
    isUploading,     \* SimplifiedEval.isUploading
    isEvaluating,    \* SimplifiedEval.isEvaluating
    datasetName,     \* SimplifiedEval.datasetName
    experimentName,  \* SimplifiedEval.experimentName
    posts,           \* the POST requests of the two handlers awaiting their answer
    lastAlert,       \* the text of the last alert() shown
    formEvent,       \* the last thing that happened in the form
    \* ---- CSV row counter (handleUpload of the Datasets page) ----
    fileContent,     \* the text of the selected file
    rowCounts,       \* the row counts computed from fileContent so far, in order
    \* ---- dataset store (Datasets page) ----
    localStorage,    \* what localStorage holds under DATASETS_STORAGE_KEY
    tabs,            \* per browser tab: the state of the Datasets component shown there
    now,             \* Date.now(), counted in uploads
    storeEvent       \* the last thing that happened on a Datasets page

proxyVars == <<useMockData, proxyPc, request, upstream, response, outboundCalls, fixtureReads>>
pageVars  == <<activeTab, apiKeys, selectedKeyId, evalJobs, isLoading, error, intervals,
               outstanding, lastEvent>>
scoreVars == <<job, guardResult, resolved>>
renderVars == <<renderJob, tableView, cardView>>
formVars  == <<uploadedFile, datasetId, isUploading, isEvaluating, datasetName,
               experimentName, posts, lastAlert, formEvent>>
rowVars   == <<fileContent, rowCounts>>
storeVars == <<localStorage, tabs, now, storeEvent>>
vars      == <<proxyVars, pageVars, scoreVars, renderVars, formVars, rowVars, storeVars>>

\* JavaScript null where a string may stand
Null == "null"

(***************************************************************************)
(* Part 1: the proxy route handlers                                        *)
(***************************************************************************)

Handlers == {"evaluations", "assistant"}

\* request.headers.get('X-API-KEY'): null when the header is absent, else its text
ApiKeyHeaders == {Null, "", "sk-test"}

\* ids asked for; '44' and '2' are the ids the mock mode knows
RequestIds == {"1", "2", "44", "abc"}

\* statuses the backend may answer with; fetch() never delivers 1xx
UpstreamStatuses == {200, 201, 204, 400, 404, 500}

\* statuses that carry no body (a 204 answer has an empty body, response.json() rejects)
NullBodyStatuses == {204}

\* outcomes of fs.readFileSync + JSON.parse on the fixture
FixtureOutcomes == {"ok", "ENOENT", "SyntaxError"}

NoRequest  == [handler |-> "none", apiKey |-> Null, id |-> ""]
NoUpstream == [state |-> "none"]
NoResponse == [status |-> 0]

\* mutant: the check written as apiKey === ''
MissingKey_EmptyOnly(apiKey) == apiKey = ""

\* if (!apiKey): null and the empty string are falsy
MissingKey(apiKey) == apiKey = Null \/ apiKey = ""

\* Response.ok
ResponseOk(status) == status >= 200 /\ status <= 299

\* NextResponse.json({ error }, { status: 401 })
Unauthorized(handler) ==
    [status |-> 401, kind |-> "error", keys |-> {"error"},
     error |-> IF handler = "evaluations" THEN "Missing X-API-KEY"
               ELSE "Missing X-API-KEY header"]

\* mutant: only '44' is mapped to the second fixture
MockFileName_Only44(id) ==
    IF id = "44" THEN "evaluation-sample-2.json" ELSE "evaluation-sample-1.json"

\* Map IDs to mock files
MockFileName(id) ==
    IF id = "44" \/ id = "2" THEN "evaluation-sample-2.json" ELSE "evaluation-sample-1.json"

\* return NextResponse.json(mockData, { status: 200 })
MockAnswer(file) == [status |-> 200, kind |-> "fixture", file |-> file]

\* mutant: the fixture failure falls through to the generic proxy error
MockCatch_Generic(errMessage) ==
    [status |-> 500, kind |-> "error", keys |-> {"error", "details"},
     error |-> "Failed to fetch evaluation", details |-> errMessage]

\* the catch around the fixture read
MockCatch(errMessage) ==
    [status |-> 404, kind |-> "error", keys |-> {"error", "details"},
     error |-> "Mock data not found", details |-> errMessage]

\* status answered by GET /api/evaluations/[id] for a parsed upstream body
EvaluationsStatus(status) == status

\* status answered by GET /api/assistant/[assistant_id] for a parsed upstream body
AssistantStatus(status) == IF ~ResponseOk(status) THEN status ELSE 200

ForwardAnswer(handler, status) ==
    [status |-> IF handler = "evaluations" THEN EvaluationsStatus(status)
                ELSE AssistantStatus(status),
     kind |-> "upstream", upstreamStatus |-> status]

\* mutant: the failure is swallowed and an empty success is answered
ProxyCatch_EmptySuccess(handler, errMessage) ==
    [status |-> 200, kind |-> "empty"]

\* the outer catch of both handlers
ProxyCatch(handler, errMessage) ==
    [status |-> 500, kind |-> "error", keys |-> {"error", "details"},
     error |-> IF handler = "evaluations" THEN "Failed to fetch evaluation"
               ELSE "Failed to forward request to backend",
     details |-> errMessage]

\* GET is called: key check, then the mock branch or the outbound fetch
ProxyReceive(h, k, id, fx) ==
    /\ proxyPc \in {"idle", "responded"}
    /\ request' = [handler |-> h, apiKey |-> k, id |-> id]
    /\ upstream' = NoUpstream
    /\ IF MissingKey(k)
       THEN /\ response' = Unauthorized(h)
            /\ proxyPc' = "responded"
            /\ outboundCalls' = 0
            /\ fixtureReads' = {}
       ELSE IF h = "evaluations" /\ useMockData
       THEN /\ fixtureReads' = {[file |-> MockFileName(id), outcome |-> fx]}
            /\ outboundCalls' = 0
            /\ response' = IF fx = "ok" THEN MockAnswer(MockFileName(id)) ELSE MockCatch(fx)
            /\ proxyPc' = "responded"
       ELSE /\ outboundCalls' = 1
            /\ fixtureReads' = {}
            /\ response' = NoResponse
            /\ proxyPc' = "fetching"
    /\ UNCHANGED useMockData

\* await fetch(...) rejects: network error
ProxyFetchRejects ==
    /\ proxyPc = "fetching"
    /\ upstream' = [state |-> "rejected"]
    /\ response' = ProxyCatch(request.handler, "fetch failed")
    /\ proxyPc' = "responded"
    /\ UNCHANGED <<useMockData, request, outboundCalls, fixtureReads>>

\* await fetch(...) resolves with the backend's status line
ProxyFetchResolves(s) ==
    /\ proxyPc = "fetching"
    /\ upstream' = [state |-> "headers", status |-> s]
    /\ proxyPc' = "parsing"
    /\ UNCHANGED <<useMockData, request, response, outboundCalls, fixtureReads>>

\* await response.json() rejects: the body is not JSON
ProxyJsonRejects ==
    /\ proxyPc = "parsing"
    /\ upstream' = [state |-> "unparseable", status |-> upstream.status]
    /\ response' = ProxyCatch(request.handler, "Unexpected end of JSON input")
    /\ proxyPc' = "responded"
    /\ UNCHANGED <<useMockData, request, outboundCalls, fixtureReads>>

\* await response.json() resolves and the handler answers
ProxyJsonResolves ==
    /\ proxyPc = "parsing"
    /\ upstream.status \notin NullBodyStatuses
    /\ upstream' = [state |-> "parsed", status |-> upstream.status]
    /\ response' = ForwardAnswer(request.handler, upstream.status)
    /\ proxyPc' = "responded"
    /\ UNCHANGED <<useMockData, request, outboundCalls, fixtureReads>>

PageIdle ==
    /\ activeTab = "upload"
    /\ apiKeys = {}
    /\ selectedKeyId = ""
    /\ evalJobs = <<>>
    /\ isLoading = FALSE
    /\ error = Null
    /\ intervals = 0
    /\ outstanding = <<>>
    /\ lastEvent = [kind |-> "none"]

ScoreIdle ==
    /\ job = [score |-> [type |-> "undefined", keys |-> {}],
              scores |-> [type |-> "undefined", keys |-> {}]]
    /\ guardResult = [called |-> FALSE]
    /\ resolved = [called |-> FALSE]

RenderIdle ==
    /\ renderJob = [score  |-> [type |-> "undefined", keys |-> {}, num |-> 0,
                                individual |-> [isNull |-> TRUE, rows |-> <<>>]],
                    scores |-> [type |-> "undefined", keys |-> {}, num |-> 0,
                                individual |-> [isNull |-> TRUE, rows |-> <<>>]]]
    /\ tableView = [rendered |-> FALSE]
    /\ cardView = [rendered |-> FALSE]

\* SimplifiedEval as constructed: the useState initial values
FormIdle ==
    /\ uploadedFile = [chosen |-> FALSE, name |-> <<>>]
    /\ datasetId = [kind |-> "null", num |-> 0, str |-> ""]
    /\ isUploading = FALSE
    /\ isEvaluating = FALSE
    /\ datasetName = <<>>
    /\ experimentName = <<>>
    /\ posts = [upload |-> FALSE, evaluation |-> FALSE]
    /\ lastAlert = [text |-> "", detail |-> "", status |-> 0]
    /\ formEvent = [kind |-> "none"]

ProxyIdle ==
    /\ useMockData = TRUE
    /\ proxyPc = "idle"
    /\ request = NoRequest
    /\ upstream = NoUpstream
    /\ response = NoResponse
    /\ outboundCalls = 0
    /\ fixtureReads = {}

\* nothing selected and nothing counted
RowCountIdle ==
    /\ fileContent = <<>>
    /\ rowCounts = <<>>

\* the browser tabs that may show the Datasets page
Tabs == {"t1", "t2"}

\* localStorage.getItem(DATASETS_STORAGE_KEY) === null
AbsentStore == [kind |-> "absent", items |-> <<>>]

\* no setDatasets(parsedDatasets) awaits its re-render
NoPending == [active |-> FALSE, datasets |-> <<>>]

\* no handleUpload awaits selectedFile.text()
NoUpload == [active |-> FALSE, datasets |-> <<>>,
             input |-> [content |-> <<>>, duplicationFactor |-> <<>>]]

\* a tab that does not show the Datasets page
ClosedTab == [mounted |-> FALSE, datasets |-> <<>>, loaded |-> NoPending, upload |-> NoUpload]

\* no tab shows the Datasets page and the store key is absent
StoreIdle ==
    /\ localStorage = AbsentStore
    /\ tabs = [t \in Tabs |-> ClosedTab]
    /\ now = 1
    /\ storeEvent = [kind |-> "none", tab |-> "t1"]

ProxyInit ==
    /\ useMockData \in BOOLEAN
    /\ proxyPc = "idle"
    /\ request = NoRequest
    /\ upstream = NoUpstream
    /\ response = NoResponse
    /\ outboundCalls = 0
    /\ fixtureReads = {}
    /\ PageIdle
    /\ ScoreIdle
    /\ RenderIdle
    /\ FormIdle
    /\ RowCountIdle
    /\ StoreIdle

ProxyNext ==
    /\ \/ \E h \in Handlers, k \in ApiKeyHeaders, id \in RequestIds, fx \in FixtureOutcomes :
             ProxyReceive(h, k, id, fx)
       \/ ProxyFetchRejects
       \/ \E s \in UpstreamStatuses : ProxyFetchResolves(s)
       \/ ProxyJsonRejects
       \/ ProxyJsonResolves
    /\ UNCHANGED <<pageVars, scoreVars, renderVars, formVars, rowVars, storeVars>>

SpecProxy == ProxyInit /\ [][ProxyNext]_vars

(***************************************************************************)
(* Part 2: the evaluations page and the polling loop of ResultsTab         *)
(*                                                                         *)
(* A job is represented by its status string, and a string by the sequence *)
(* of its characters, so that toLowerCase() is computed and not assumed.   *)
(* A state update and the effects React runs after the re-render it causes *)
(* are one step: no timer callback runs between the two.                   *)
(***************************************************************************)

\* most jobs in one answer of GET /api/evaluations
MaxJobs == 1

\* most GET /api/evaluations requests awaiting their answer at once
MaxOutstanding == 2

UpperCaseLetters ==
    <<"A","B","C","D","E","F","G","H","I","J","K","L","M",
      "N","O","P","Q","R","S","T","U","V","W","X","Y","Z">>

LowerCaseLetters ==
    <<"a","b","c","d","e","f","g","h","i","j","k","l","m",
      "n","o","p","q","r","s","t","u","v","w","x","y","z">>

\* String.prototype.toLowerCase
ToLowerCase(str) ==
    [i \in 1..Len(str) |->
        IF \E n \in 1..Len(UpperCaseLetters) : UpperCaseLetters[n] = str[i]
        THEN LowerCaseLetters[CHOOSE n \in 1..Len(UpperCaseLetters) : UpperCaseLetters[n] = str[i]]
        ELSE str[i]]

\* the status literals of page.tsx
processing == <<"p","r","o","c","e","s","s","i","n","g">>
pending    == <<"p","e","n","d","i","n","g">>
queued     == <<"q","u","e","u","e","d">>
completed  == <<"c","o","m","p","l","e","t","e","d">>
success    == <<"s","u","c","c","e","s","s">>
failed     == <<"f","a","i","l","e","d">>
errorStatus == <<"e","r","r","o","r">>

\* the status strings a backend answer may carry: the in-flight ones, a terminal
\* one, and an upper-case spelling, which the polling effect does not know
JobStatuses ==
    {processing, pending, queued, completed,
     <<"P","R","O","C","E","S","S","I","N","G">>}

\* the job lists a backend answer may carry
JobLists == UNION {[1..n -> JobStatuses] : n \in 0..MaxJobs}

\* the ids under which keys are stored in the keystore
KeyIds == {"k1"}

\* what a GET /api/evaluations request may come back with
FetchAnswers ==
    {[kind |-> "reject"], [kind |-> "badjson"], [kind |-> "jsonnull"], [kind |-> "nodata"]}
    \cup {[kind |-> "notok", body |-> b] : b \in {"error", "message", "none"}}
    \cup {[kind |-> k, jobs |-> j] : k \in {"array", "data"}, j \in JobLists}

\* mutant: 'queued' is left out of the comparison
HasProcessingJobs_NoQueued(jobs) ==
    \E i \in 1..Len(jobs) : jobs[i] = processing \/ jobs[i] = pending

\* evalJobs.some(job => job.status === 'processing' || ... 'pending' || ... 'queued')
HasProcessingJobs(jobs) ==
    \E i \in 1..Len(jobs) :
        jobs[i] = processing \/ jobs[i] = pending \/ jobs[i] = queued

\* EvalJobCard.getStatusColor: the badge colour of a status
GetStatusColor(status) ==
    LET s == ToLowerCase(status) IN
    CASE s = completed \/ s = success -> "green"
      [] s = processing \/ s = pending \/ s = queued -> "yellow"
      [] s = failed \/ s = errorStatus -> "red"
      [] OTHER -> "neutral"

\* mutant: the effect returns no cleanup
EffectCleanup_Missing(n) == n

\* return () => clearInterval(interval): clears the timer the last run created
EffectCleanup(n) == IF n > 0 THEN n - 1 ELSE 0

\* mutant: a new timer is created without clearing the previous one
AutoRefreshEffect_Accumulates(n, jobs) ==
    IF HasProcessingJobs(jobs) THEN n + 1 ELSE n

\* mutant: the old timer is only replaced, never cleared without a successor
AutoRefreshEffect_KeepsTimer(n, jobs) ==
    IF HasProcessingJobs(jobs) THEN 1 ELSE n

\* the auto-refresh effect, run when evalJobs or selectedKeyId changed:
\* cleanup of the previous run, then a new interval if a job is in flight
AutoRefreshEffect(n, jobs) ==
    IF HasProcessingJobs(jobs) THEN EffectCleanup(n) + 1 ELSE EffectCleanup(n)

\* mutant: only a bare array is taken
JobsOfAnswer_ArrayOnly(a) ==
    IF a.kind = "array" THEN a.jobs ELSE <<>>

\* Array.isArray(data) ? data : (data.data || [])
JobsOfAnswer(a) ==
    IF a.kind \in {"array", "data"} THEN a.jobs ELSE <<>>

\* does fetchEvaluations reach setEvalJobs with this answer
AnswerStored(a) == a.kind \in {"array", "data", "nodata"}

\* the message fetchEvaluations ends with in its catch block
ErrorOfAnswer(a) ==
    CASE a.kind = "reject" -> "Failed to fetch"
      [] a.kind = "badjson" -> "Unexpected token"
      [] a.kind = "jsonnull" -> "Cannot read properties of null"
      [] a.kind = "notok" /\ a.body \in {"error", "message"} -> "upstream message"
      [] OTHER -> "Failed to fetch evaluations: status"

\* mutant: the catch block also clears the list
FetchCatch_ClearsJobs(jobs, a) == [evalJobs |-> <<>>, error |-> ErrorOfAnswer(a)]

\* catch (err) { setError(err.message || ...) }: the list is not touched
FetchCatch(jobs, a) == [evalJobs |-> jobs, error |-> ErrorOfAnswer(a)]

ResultsMounted == activeTab = "results"

\* fetchEvaluations up to its await fetch(...), called by a component instance
\* that is mounted or (a callback left over from a torn-down one) is not
FetchEvaluations(cause, mounted) ==
    IF selectedKeyId = ""
    THEN /\ error' = "Please select an API key first"
         /\ UNCHANGED <<isLoading, outstanding>>
         /\ lastEvent' = [kind |-> "rejected", cause |-> cause]
    ELSE IF selectedKeyId \notin apiKeys
    THEN /\ error' = "Selected API key not found"
         /\ UNCHANGED <<isLoading, outstanding>>
         /\ lastEvent' = [kind |-> "rejected", cause |-> cause]
    ELSE /\ Len(outstanding) < MaxOutstanding
         /\ isLoading' = (IF mounted THEN TRUE ELSE isLoading)
         /\ error' = (IF mounted THEN Null ELSE error)
         /\ outstanding' = Append(outstanding, [cause |-> cause, live |-> mounted,
                                                 overtaken |-> FALSE])
         /\ lastEvent' = [kind |-> "issued", cause |-> cause]

\* the key selector of the Upload tab
SelectKey(k) ==
    /\ activeTab = "upload"
    /\ k \in apiKeys \cup {""}
    /\ k # selectedKeyId
    /\ selectedKeyId' = k
    /\ lastEvent' = [kind |-> "select"]
    /\ UNCHANGED <<activeTab, apiKeys, evalJobs, isLoading, error, intervals, outstanding>>

\* setActiveTab('results'): ResultsTab mounts with fresh state and runs its effects
SwitchToResults ==
    /\ activeTab = "upload"
    /\ activeTab' = "results"
    /\ evalJobs' = <<>>
    /\ intervals' = AutoRefreshEffect(intervals, <<>>)
    /\ IF selectedKeyId # ""
       THEN FetchEvaluations("mount", TRUE)
       ELSE /\ isLoading' = FALSE
            /\ error' = Null
            /\ lastEvent' = [kind |-> "mount"]
            /\ UNCHANGED outstanding
    /\ UNCHANGED <<apiKeys, selectedKeyId>>

\* setActiveTab('upload'): ResultsTab unmounts, its effect cleanup runs, its state is
\* gone and answers still under way find nobody
SwitchToUpload ==
    /\ activeTab = "results"
    /\ activeTab' = "upload"
    /\ intervals' = EffectCleanup(intervals)
    /\ evalJobs' = <<>>
    /\ isLoading' = FALSE
    /\ error' = Null
    /\ outstanding' = [i \in 1..Len(outstanding) |-> [outstanding[i] EXCEPT !.live = FALSE]]
    /\ lastEvent' = [kind |-> "unmount", timerBefore |-> intervals > 0,
                     inFlightBefore |-> HasProcessingJobs(evalJobs)]
    /\ UNCHANGED <<apiKeys, selectedKeyId>>

\* the Refresh button: disabled={isLoading || !selectedKeyId}
ManualRefresh ==
    /\ ResultsMounted
    /\ ~isLoading
    /\ selectedKeyId # ""
    /\ FetchEvaluations("manual", TRUE)
    /\ UNCHANGED <<activeTab, apiKeys, selectedKeyId, evalJobs, intervals>>

\* the setInterval callback fires
TimerTick ==
    /\ intervals > 0
    /\ FetchEvaluations("timer", ResultsMounted)
    /\ UNCHANGED <<activeTab, apiKeys, selectedKeyId, evalJobs, intervals>>

RemoveAt(seq, i) == [j \in 1..(Len(seq) - 1) |-> IF j < i THEN seq[j] ELSE seq[j + 1]]

\* the requests issued before the i-th one are still under way when the answer
\* to the i-th one is stored: each of them now carries an older snapshot
Overtake(seq, i) ==
    [j \in 1..Len(seq) |-> IF j < i THEN [seq[j] EXCEPT !.overtaken = TRUE] ELSE seq[j]]

\* mutant: the answer to a request that a later one has overtaken is ignored
SetEvalJobs_SequenceGuarded(current, req, a) ==
    IF req.overtaken THEN current ELSE JobsOfAnswer(a)

\* setEvalJobs(jobs): the list of the answer replaces the stored list, whatever
\* request it answers
SetEvalJobs(current, req, a) == JobsOfAnswer(a)

\* the i-th request under way comes back after its ResultsTab was torn down:
\* the state updates of the rest of fetchEvaluations find no component
FetchSettlesUnmounted(i) ==
    /\ i \in 1..Len(outstanding)
    /\ ~outstanding[i].live
    /\ outstanding' = RemoveAt(outstanding, i)
    /\ lastEvent' = [kind |-> "dropped", cause |-> outstanding[i].cause]
    /\ UNCHANGED <<activeTab, apiKeys, selectedKeyId, evalJobs, isLoading, error, intervals>>

\* the i-th request under way comes back with answer a: the rest of fetchEvaluations
FetchSettles(i, a) ==
    /\ i \in 1..Len(outstanding)
    /\ outstanding[i].live
    /\ IF AnswerStored(a)
       THEN /\ outstanding' = RemoveAt(Overtake(outstanding, i), i)
            /\ evalJobs' = SetEvalJobs(evalJobs, outstanding[i], a)
            /\ intervals' = AutoRefreshEffect(intervals, SetEvalJobs(evalJobs, outstanding[i], a))
            /\ isLoading' = FALSE
            /\ lastEvent' = [kind |-> "stored", cause |-> outstanding[i].cause,
                             timerBefore |-> intervals > 0, answer |-> a,
                             overtaken |-> outstanding[i].overtaken]
            /\ UNCHANGED error
       ELSE /\ outstanding' = RemoveAt(outstanding, i)
            /\ evalJobs' = FetchCatch(evalJobs, a).evalJobs
            /\ error' = FetchCatch(evalJobs, a).error
            /\ intervals' = IF FetchCatch(evalJobs, a).evalJobs = evalJobs THEN intervals
                            ELSE AutoRefreshEffect(intervals, FetchCatch(evalJobs, a).evalJobs)
            /\ isLoading' = FALSE
            /\ lastEvent' = [kind |-> "failed", cause |-> outstanding[i].cause,
                             timerBefore |-> intervals > 0]
    /\ UNCHANGED <<activeTab, apiKeys, selectedKeyId>>

PageInit ==
    /\ activeTab = "upload"
    /\ apiKeys \in SUBSET KeyIds
    /\ selectedKeyId = ""
    /\ evalJobs = <<>>
    /\ isLoading = FALSE
    /\ error = Null
    /\ intervals = 0
    /\ outstanding = <<>>
    /\ lastEvent = [kind |-> "none"]
    /\ ProxyIdle
    /\ ScoreIdle
    /\ RenderIdle
    /\ FormIdle
    /\ RowCountIdle
    /\ StoreIdle

PageNext ==
    /\ \/ \E k \in KeyIds \cup {""} : SelectKey(k)
       \/ SwitchToResults
       \/ SwitchToUpload
       \/ ManualRefresh
       \/ TimerTick
       \/ \E i \in 1..MaxOutstanding, a \in FetchAnswers : FetchSettles(i, a)
       \/ \E i \in 1..MaxOutstanding : FetchSettlesUnmounted(i)
    /\ UNCHANGED <<proxyVars, scoreVars, renderVars, formVars, rowVars, storeVars>>

SpecResults == PageInit /\ [][PageNext]_vars

(***************************************************************************)
(* Part 3: score objects and their type guards (components/types.ts)       *)
(*                                                                         *)
(* A score object is represented by the set of its own keys.               *)
(***************************************************************************)

\* the keys a score object of a backend answer may have
ScoreKeys == {"summary_scores", "individual_scores", "cosine_similarity", "per_item_scores"}

ScoreObjects == {[type |-> "object", keys |-> K] : K \in SUBSET ScoreKeys}

\* null and undefined (an absent field) as values of a score field
ScoreNull      == [type |-> "null", keys |-> {}]
ScoreUndefined == [type |-> "undefined", keys |-> {}]

\* ScoreObject | null | undefined
ScoreValues == {ScoreNull, ScoreUndefined} \cup ScoreObjects

\* the score and scores fields of EvalJob, both optional and nullable
Jobs == [score : ScoreValues, scores : ScoreValues]

\* !score: null, undefined and the number 0 are falsy, an object is not
NoScore(score) ==
    \/ score.type = "null"
    \/ score.type = "undefined"
    \/ (score.type = "number" /\ score.num = 0)

\* mutant: one of the two keys is enough
isNewScoreObject_EitherKey(score) ==
    IF NoScore(score) THEN FALSE
    ELSE "summary_scores" \in score.keys \/ "individual_scores" \in score.keys

\* export function isNewScoreObject
isNewScoreObject(score) ==
    IF NoScore(score) THEN FALSE
    ELSE "summary_scores" \in score.keys /\ "individual_scores" \in score.keys

\* export function isLegacyScoreObject
isLegacyScoreObject(score) ==
    IF NoScore(score) THEN FALSE
    ELSE "cosine_similarity" \in score.keys

\* mutant: the fields are tried in the other order
getScoreObject_ScoreFirst(j) ==
    IF ~NoScore(j.score) THEN j.score
    ELSE IF ~NoScore(j.scores) THEN j.scores
    ELSE ScoreNull

\* export function getScoreObject: job.scores || job.score || null
getScoreObject(j) ==
    IF ~NoScore(j.scores) THEN j.scores
    ELSE IF ~NoScore(j.score) THEN j.score
    ELSE ScoreNull

\* both type guards are called on one of the two score fields of the job
CallTypeGuards(field) ==
    /\ guardResult' = [called |-> TRUE, arg |-> job[field],
                       isNew |-> isNewScoreObject(job[field]),
                       isLegacy |-> isLegacyScoreObject(job[field])]
    /\ UNCHANGED <<job, resolved>>

\* getScoreObject is called on the job
CallGetScoreObject ==
    /\ resolved' = [called |-> TRUE, value |-> getScoreObject(job)]
    /\ UNCHANGED <<job, guardResult>>

ScoreInit ==
    /\ job \in Jobs
    /\ guardResult = [called |-> FALSE]
    /\ resolved = [called |-> FALSE]
    /\ ProxyIdle
    /\ PageIdle
    /\ RenderIdle
    /\ FormIdle
    /\ RowCountIdle
    /\ StoreIdle

ScoreNext ==
    /\ \/ \E field \in {"score", "scores"} : CallTypeGuards(field)
       \/ CallGetScoreObject
    /\ UNCHANGED <<proxyVars, pageVars, renderVars, formVars, rowVars, storeVars>>

SpecScore == ScoreInit /\ [][ScoreNext]_vars

(***************************************************************************)
(* Part 4: rendering of a job (DetailedResultsTable.tsx and the header of  *)
(* EvalJobCard in page.tsx)                                                *)
(*                                                                         *)
(* A number is represented by its value in ten-thousandths, a text by the  *)
(* sequence of its characters.  A score value carries its type, its keys,  *)
(* the number it is or (for an object with cosine_similarity) the avg of   *)
(* that metric, and the value of its individual_scores key.                *)
(***************************************************************************)

\* most records in individual_scores
MaxRows == 2

\* most entries in the trace_scores of one record
MaxTraceScores == 2

\* question.length > 150, question.substring(0, 150)
TextLimit == 150

\* score.comment.length > 50, score.comment.substring(0, 50)
CommentLimit == 50

\* the text 'N/A'
NA == <<"N", "/", "A">>

\* a text of n characters
TextOf(n) == [i \in 1..n |-> LowerCaseLetters[(i % 26) + 1]]

\* an optional text field: absent, or a text
NoText      == [defined |-> FALSE, chars |-> <<>>]
SomeText(n) == [defined |-> TRUE, chars |-> TextOf(n)]

\* the lengths of text tried around a limit
TextLengths(limit) == {0, 1, limit - 1, limit, limit + 1, limit + 30}

OptionalTexts(limit) == {NoText} \cup {SomeText(n) : n \in TextLengths(limit)}

\* TraceScore: name, value (num for NUMERIC, cat for CATEGORICAL), data_type, comment
TraceScoreOf(name, dataType, num, cat, comment) ==
    [name |-> name, data_type |-> dataType, num |-> num, cat |-> cat, comment |-> comment]

\* IndividualScore: input.question, output.answer, metadata.ground_truth, trace_scores
RowOf(question, answer, groundTruth, traceScores) ==
    [question |-> question, answer |-> answer, ground_truth |-> groundTruth,
     trace_scores |-> traceScores]

\* the value of the individual_scores key: null, or an array of records
NullIndividual == [isNull |-> TRUE, rows |-> <<>>]
IndividualOf(rows) == [isNull |-> FALSE, rows |-> rows]

\* the values of a score field
RenderUndefined == [type |-> "undefined", keys |-> {}, num |-> 0, individual |-> NullIndividual]
RenderNull      == [type |-> "null", keys |-> {}, num |-> 0, individual |-> NullIndividual]
RenderNumber(n) == [type |-> "number", keys |-> {}, num |-> n, individual |-> NullIndividual]
RenderObject(K, avg, ind) == [type |-> "object", keys |-> K, num |-> avg, individual |-> ind]

\* ---- inputs ----

\* NUMERIC values tried, in ten-thousandths: around the two thresholds and the ends
NumericValues == {-1000, 0, 3000, 4999, 5000, 5001, 6999, 7000, 7001, 10000}

\* CATEGORICAL values tried
CategoricalValues == {"CORRECT", "PARTIAL", "INCORRECT", "MAYBE"}

\* the trace scores the structural inputs are built of
StructTraceScores ==
    {TraceScoreOf("accuracy", "NUMERIC", 9000, "", NoText),
     TraceScoreOf("relevance", "CATEGORICAL", 0, "CORRECT", NoText)}

\* two records in which two different trace scores share a name
DuplicateRows ==
    <<RowOf(SomeText(3), SomeText(3), SomeText(3),
            <<TraceScoreOf("accuracy", "NUMERIC", 9000, "", NoText),
              TraceScoreOf("accuracy", "NUMERIC", 3000, "", SomeText(3))>>),
      RowOf(SomeText(3), SomeText(3), SomeText(3),
            <<TraceScoreOf("accuracy", "NUMERIC", 3000, "", SomeText(3)),
              TraceScoreOf("accuracy", "NUMERIC", 9000, "", NoText)>>)>>

StructTraceLists == UNION {[1..n -> StructTraceScores] : n \in 0..MaxTraceScores}

StructRows == {RowOf(SomeText(3), SomeText(3), SomeText(3), tl) : tl \in StructTraceLists}

StructRowLists == UNION {[1..n -> StructRows] : n \in 0..MaxRows}

\* single records that vary one value or one text at a time
ValueRows ==
    {RowOf(SomeText(3), SomeText(3), SomeText(3),
           <<TraceScoreOf("accuracy", "NUMERIC", v, "", NoText)>>) : v \in NumericValues}
    \cup {RowOf(SomeText(3), SomeText(3), SomeText(3),
           <<TraceScoreOf("relevance", "CATEGORICAL", 0, c, NoText)>>) : c \in CategoricalValues}
    \cup {RowOf(SomeText(3), SomeText(3), SomeText(3),
           <<TraceScoreOf("accuracy", "NUMERIC", 9000, "", t)>>) : t \in OptionalTexts(CommentLimit)}
    \cup {RowOf(t, SomeText(3), SomeText(3), <<>>) : t \in OptionalTexts(TextLimit)}
    \cup {RowOf(SomeText(3), t, SomeText(3), <<>>) : t \in OptionalTexts(TextLimit)}
    \cup {RowOf(SomeText(3), SomeText(3), t, <<>>) : t \in OptionalTexts(TextLimit)}

IndividualValues ==
    {NullIndividual}
    \cup {IndividualOf(rows) : rows \in StructRowLists}
    \cup {IndividualOf(<<r>>) : r \in ValueRows}
    \cup {IndividualOf(DuplicateRows)}

CurrentKeys == {"summary_scores", "individual_scores"}

\* objects of the current variant
CurrentObjects == {RenderObject(CurrentKeys, 0, ind) : ind \in IndividualValues}

\* objects with the keys of both variants
BothObjects ==
    {RenderObject(CurrentKeys \cup {"cosine_similarity"}, 6300, ind) :
        ind \in {NullIndividual, IndividualOf(<<>>),
                 IndividualOf(<<RowOf(SomeText(3), SomeText(3), SomeText(3), <<>>)>>)}}

\* objects that lack one of the keys of the current variant
OtherObjects ==
    {RenderObject(K, IF "cosine_similarity" \in K THEN 6300 ELSE 0,
                  IF "individual_scores" \in K THEN IndividualOf(<<>>) ELSE NullIndividual) :
        K \in {L \in SUBSET ScoreKeys : ~(CurrentKeys \subseteq L)}}

RenderObjects == CurrentObjects \cup BothObjects \cup OtherObjects

\* job-level scores the list endpoint reports as plain numbers
NumberScores == {RenderNumber(n) : n \in {0, 6300, 8200}}

\* the jobs handed to the components: every object in the scores field, and in
\* the score field every object, null, undefined or a number; also a number in
\* score next to an object in scores
RenderJobs ==
    {[scores |-> o, score |-> RenderUndefined] : o \in RenderObjects}
    \cup {[scores |-> x, score |-> y] :
            x \in {RenderUndefined, RenderNull},
            y \in {RenderUndefined, RenderNull} \cup NumberScores \cup BothObjects
                  \cup OtherObjects}
    \cup {[scores |-> RenderUndefined, score |-> o] : o \in CurrentObjects}
    \cup {[scores |-> o, score |-> n] : o \in OtherObjects, n \in NumberScores}

\* ---- DetailedResultsTable ----

\* the styling of a cell: color and bg
StyleNeutral == [color |-> "hsl(330, 3%, 49%)", bg |-> "transparent"]
StyleDefault == [color |-> "hsl(330, 3%, 19%)", bg |-> "hsl(0, 0%, 95%)"]
StyleGreen   == [color |-> "hsl(134, 61%, 25%)", bg |-> "hsl(134, 61%, 95%)"]
StyleYellow  == [color |-> "hsl(45, 93%, 35%)", bg |-> "hsl(45, 93%, 90%)"]
StyleRed     == [color |-> "hsl(8, 86%, 40%)", bg |-> "hsl(8, 86%, 95%)"]

\* the three dots appended to a cut text
Ellipsis == <<".", ".", ".">>

\* mutant: a text of exactly limit characters is cut as well
Truncate_AtLimit(text, limit) ==
    IF Len(text) >= limit
    THEN [truncated |-> TRUE, summary |-> SubSeq(text, 1, limit) \o Ellipsis, full |-> text]
    ELSE [truncated |-> FALSE, summary |-> text, full |-> text]

\* x.length > limit ? x.substring(0, limit) + '...' : x
Truncate(text, limit) ==
    IF Len(text) > limit
    THEN [truncated |-> TRUE, summary |-> SubSeq(text, 1, limit) \o Ellipsis, full |-> text]
    ELSE [truncated |-> FALSE, summary |-> text, full |-> text]

\* item.input?.question || 'N/A': an absent or empty text is replaced
OrNA(t) == IF t.defined /\ Len(t.chars) > 0 THEN t.chars ELSE NA

\* the result of find: undefined, or the entry found
NotFound == [found |-> FALSE, score |-> TraceScoreOf("", "", 0, "", NoText)]

\* scores.find(s => s.name === name): the first entry of that name
getScoreByName(scores, name) ==
    LET hits == {i \in 1..Len(scores) : scores[i].name = name}
    IN  IF hits = {} THEN NotFound
        ELSE [found |-> TRUE,
              score |-> scores[CHOOSE i \in hits : \A k \in hits : i <= k]]

\* numValue.toFixed(2), as a number of hundredths
ToFixed2(n) == (n + 50) \div 100

\* mutant: the thresholds are compared strictly
formatScoreValue_Strict(r) ==
    IF ~r.found
    THEN [kind |-> "na", text |-> "N/A", hundredths |-> 0, style |-> StyleNeutral]
    ELSE IF r.score.data_type = "CATEGORICAL"
    THEN [kind |-> "cat", text |-> r.score.cat, hundredths |-> 0,
          style |-> IF r.score.cat = "CORRECT" THEN StyleGreen
                    ELSE IF r.score.cat = "PARTIAL" THEN StyleYellow
                    ELSE IF r.score.cat = "INCORRECT" THEN StyleRed
                    ELSE StyleDefault]
    ELSE [kind |-> "num", text |-> "", hundredths |-> ToFixed2(r.score.num),
          style |-> IF r.score.num > 7000 THEN StyleGreen
                    ELSE IF r.score.num > 5000 THEN StyleYellow
                    ELSE StyleRed]

\* formatScoreValue: the text and the styling of one cell
formatScoreValue(r) ==
    IF ~r.found
    THEN [kind |-> "na", text |-> "N/A", hundredths |-> 0, style |-> StyleNeutral]
    ELSE IF r.score.data_type = "CATEGORICAL"
    THEN [kind |-> "cat", text |-> r.score.cat, hundredths |-> 0,
          style |-> IF r.score.cat = "CORRECT" THEN StyleGreen
                    ELSE IF r.score.cat = "PARTIAL" THEN StyleYellow
                    ELSE IF r.score.cat = "INCORRECT" THEN StyleRed
                    ELSE StyleDefault]
    ELSE [kind |-> "num", text |-> "", hundredths |-> ToFixed2(r.score.num),
          style |-> IF r.score.num >= 7000 THEN StyleGreen
                    ELSE IF r.score.num >= 5000 THEN StyleYellow
                    ELSE StyleRed]

\* score?.comment && (...): the line under the value, when there is a comment
CommentLine(r) ==
    IF r.found /\ r.score.comment.defined /\ Len(r.score.comment.chars) > 0
    THEN [shown |-> TRUE, text |-> Truncate(r.score.comment.chars, CommentLimit)]
    ELSE [shown |-> FALSE, text |-> Truncate(<<>>, CommentLimit)]

\* mutant: the names are read from the last record
scoreNames_LastRecord(rows) ==
    IF Len(rows) = 0 THEN <<>>
    ELSE [i \in 1..Len(rows[Len(rows)].trace_scores) |->
             rows[Len(rows)].trace_scores[i].name]

\* individual_scores[0]?.trace_scores?.map(s => s.name) || []
scoreNames(rows) ==
    IF Len(rows) = 0 THEN <<>>
    ELSE [i \in 1..Len(rows[1].trace_scores) |-> rows[1].trace_scores[i].name]

\* one cell of a score column
ScoreCell(item, scoreName) ==
    LET score == getScoreByName(item.trace_scores, scoreName)
    IN  [format |-> formatScoreValue(score), comment |-> CommentLine(score)]

\* one <tr> of the table body
TableRow(item, names) ==
    [question    |-> Truncate(OrNA(item.question), TextLimit),
     answer      |-> Truncate(OrNA(item.answer), TextLimit),
     groundTruth |-> Truncate(OrNA(item.ground_truth), TextLimit),
     cells       |-> [c \in 1..Len(names) |-> ScoreCell(item, names[c])]]

\* mutant: an empty array is not checked for
NoIndividualScores_NullOnly(ind) == ind.isNull

\* !individual_scores || individual_scores.length === 0
NoIndividualScores(ind) == ind.isNull \/ Len(ind.rows) = 0

\* what the component returns: one of the two placeholders, the table, or a throw
Placeholder(state) == [rendered |-> TRUE, state |-> state, columns |-> <<>>, rows |-> <<>>]

\* export default function DetailedResultsTable({ job })
DetailedResultsTable(j) ==
    LET scoreObject == getScoreObject(j)
    IN  IF NoScore(scoreObject) THEN Placeholder("no_detailed")
        ELSE IF scoreObject.type # "object" THEN Placeholder("threw")
        ELSE IF ~isNewScoreObject(scoreObject) THEN Placeholder("no_detailed")
        ELSE IF NoIndividualScores(scoreObject.individual) THEN Placeholder("no_individual")
        ELSE LET rows == scoreObject.individual.rows
                 names == scoreNames(rows)
             IN  [rendered |-> TRUE, state |-> "table", columns |-> names,
                  rows |-> [i \in 1..Len(rows) |-> TableRow(rows[i], names)]]

\* ---- EvalJobCard header ----

\* (job.score * 100).toFixed(1), as a number of tenths of a percent
ToFixed1Percent(n) == (n + 5) \div 10

\* {job.score !== null && (... {(job.score * 100).toFixed(1)}% score ...)}
ScoreDisplay(j) ==
    IF j.score.type = "null"
    THEN [rendered |-> TRUE, shown |-> FALSE, isNaN |-> FALSE, tenths |-> 0]
    ELSE IF j.score.type = "number"
    THEN [rendered |-> TRUE, shown |-> TRUE, isNaN |-> FALSE,
          tenths |-> ToFixed1Percent(j.score.num)]
    ELSE [rendered |-> TRUE, shown |-> TRUE, isNaN |-> TRUE, tenths |-> 0]

\* ---- actions ----

\* React renders <DetailedResultsTable job={job} />
RenderTable ==
    /\ ~tableView.rendered
    /\ tableView' = DetailedResultsTable(renderJob)
    /\ UNCHANGED <<renderJob, cardView>>

\* React renders <EvalJobCard job={job} />
RenderCard ==
    /\ ~cardView.rendered
    /\ cardView' = ScoreDisplay(renderJob)
    /\ UNCHANGED <<renderJob, tableView>>

RenderInit ==
    /\ renderJob \in RenderJobs
    /\ tableView = [rendered |-> FALSE]
    /\ cardView = [rendered |-> FALSE]
    /\ ProxyIdle
    /\ PageIdle
    /\ ScoreIdle
    /\ FormIdle
    /\ RowCountIdle
    /\ StoreIdle

RenderNext ==
    /\ \/ RenderTable
       \/ RenderCard
    /\ UNCHANGED <<proxyVars, pageVars, scoreVars, formVars, rowVars, storeVars>>

SpecRender == RenderInit /\ [][RenderNext]_vars

(***************************************************************************)
(* Part 5: the upload and evaluation form (SimplifiedEval and UploadTab of *)
(* page.tsx)                                                               *)
(*                                                                         *)
(* The form shares activeTab, apiKeys and selectedKeyId with Part 2.  A    *)
(* handler runs up to its await in one step; the answer to its POST is a   *)
(* later step that runs the rest of the handler.                           *)
(***************************************************************************)

\* ---- values ----

NoFile == [chosen |-> FALSE, name |-> <<>>]
FileOf(name) == [chosen |-> TRUE, name |-> name]

\* file names offered to the file input
FileNames ==
    {<<"a", ".", "c", "s", "v">>, <<"a", ".", "C", "S", "V">>,
     <<"a", ".", "C", "s", "v">>, <<".", "c", "s", "v">>}

\* texts typed into the name inputs
TypedNames == {<<>>, <<" ">>, <<"n">>, <<" ", "n", " ">>}

\* a dataset id: the state starts as null; data.dataset_id is whatever the body holds
DatasetIdOf(kind, num, str) == [kind |-> kind, num |-> num, str |-> str]
NoDatasetId == DatasetIdOf("null", 0, "")
DatasetIdValues ==
    {DatasetIdOf("undefined", 0, ""), NoDatasetId,
     DatasetIdOf("number", 0, ""), DatasetIdOf("number", 12, ""),
     DatasetIdOf("string", 0, ""), DatasetIdOf("string", 0, "12")}

\* JavaScript truthiness of such a value
Truthy(v) == (v.kind = "number" /\ v.num # 0) \/ (v.kind = "string" /\ v.str # "")

\* the answers to a POST of the form: the fetch rejects; a status outside 2xx
\* whose body has an error key, a message key, neither, or is not JSON; a 2xx
\* status whose body is not JSON, is null, or is an object
NotOkStatuses == {400, 500}
NotOkBodies == {"error", "message", "none", "unparseable"}
FailedAnswers ==
    {[kind |-> "reject"], [kind |-> "okbadjson"], [kind |-> "oknull"]}
    \cup {[kind |-> "notok", status |-> st, body |-> b] : st \in NotOkStatuses, b \in NotOkBodies}
UploadAnswers ==
    FailedAnswers \cup {[kind |-> "ok", dataset_id |-> v] : v \in DatasetIdValues}
EvaluationAnswers == FailedAnswers \cup {[kind |-> "ok"]}

\* ---- pure functions ----

\* String.prototype.trim on a text of letters and blanks
Trim(t) ==
    LET solid == {i \in 1..Len(t) : t[i] # " "}
    IN  IF solid = {} THEN <<>>
        ELSE SubSeq(t, CHOOSE i \in solid : \A k \in solid : i <= k,
                       CHOOSE i \in solid : \A k \in solid : i >= k)

\* file.name.replace(/\.(csv|CSV)$/, '')
ExtractedName(name) ==
    IF /\ Len(name) >= 4
       /\ SubSeq(name, Len(name) - 3, Len(name))
              \in {<<".", "c", "s", "v">>, <<".", "C", "S", "V">>}
    THEN SubSeq(name, 1, Len(name) - 4)
    ELSE name

\* alert(text), with what a template puts after the text
AlertOf(text, detail, status) == [text |-> text, detail |-> detail, status |-> status]

\* error.message of what the try block threw for answer a; fallback is the
\* text before the status in the handler's template
ErrorMessage(a, fallback) ==
    IF a.kind = "reject" THEN [detail |-> "fetch rejected", status |-> 0]
    ELSE IF a.kind = "okbadjson" THEN [detail |-> "json rejected", status |-> 0]
    ELSE IF a.kind = "oknull" THEN [detail |-> "TypeError", status |-> 0]
    ELSE IF a.kind = "notok" /\ a.body = "error" THEN [detail |-> "errorData.error", status |-> 0]
    ELSE IF a.kind = "notok" /\ a.body = "message"
    THEN [detail |-> "errorData.message", status |-> 0]
    ELSE IF a.kind = "notok" THEN [detail |-> fallback, status |-> a.status]
    ELSE [detail |-> "No dataset_id returned from upload", status |-> 0]

\* ---- what UploadTab renders ----

\* {!datasetId && (...)}: the file selection area
FileAreaShown == ~Truthy(datasetId)

\* {uploadedFile && !datasetId && (...)}: the metadata fields and the upload button
MetadataShown == uploadedFile.chosen /\ ~Truthy(datasetId)

\* disabled={!datasetName.trim() || isUploading}
UploadButtonDisabled == Trim(datasetName) = <<>> \/ isUploading

\* {datasetId && (...)}: the Evaluation Configuration card
EvaluationConfigShown == Truthy(datasetId)

\* disabled={!datasetId || !experimentName.trim() || isEvaluating || isUploading}
RunButtonDisabled ==
    ~Truthy(datasetId) \/ Trim(experimentName) = <<>> \/ isEvaluating \/ isUploading

\* ---- handlers ----

\* handleFileSelect, for the file the input reports (or none)
handleFileSelect(picked) ==
    IF ~picked.chosen
    THEN /\ formEvent' = [kind |-> "file_none"]
         /\ UNCHANGED <<uploadedFile, datasetId, datasetName, lastAlert>>
    ELSE IF selectedKeyId = ""
    THEN /\ lastAlert' = AlertOf("Please select an API key first", "", 0)
         /\ formEvent' = [kind |-> "file_rejected"]
         /\ UNCHANGED <<uploadedFile, datasetId, datasetName>>
    ELSE /\ uploadedFile' = picked
         /\ datasetName' = ExtractedName(picked.name)
         /\ datasetId' = NoDatasetId
         /\ formEvent' = [kind |-> "file_set"]
         /\ UNCHANGED lastAlert

\* an early return of handleUploadDataset or handleRunEvaluation: alert(text); return
RejectWith(kind, text) ==
    /\ lastAlert' = AlertOf(text, "", 0)
    /\ formEvent' = [kind |-> kind]
    /\ UNCHANGED <<isUploading, isEvaluating, posts>>

\* mutant: the busy flag is raised before the preconditions are looked at
handleUploadDataset_FlagFirst ==
    /\ IF ~uploadedFile.chosen \/ selectedKeyId = "" \/ Trim(datasetName) = <<>>
          \/ selectedKeyId \notin apiKeys
       THEN /\ lastAlert' = AlertOf("Please select an API key first", "", 0)
            /\ formEvent' = [kind |-> "upload_rejected"]
            /\ isUploading' = TRUE
            /\ UNCHANGED <<isEvaluating, posts>>
       ELSE /\ isUploading' = TRUE
            /\ posts' = [posts EXCEPT !.upload = TRUE]
            /\ formEvent' = [kind |-> "upload_sent"]
            /\ UNCHANGED <<isEvaluating, lastAlert>>
    /\ UNCHANGED <<uploadedFile, datasetId, datasetName, experimentName>>
    /\ UNCHANGED pageVars

\* handleUploadDataset, up to the await of fetch('/api/evaluations/datasets')
handleUploadDataset ==
    /\ IF ~uploadedFile.chosen
       THEN RejectWith("upload_rejected", "Please select a file first")
       ELSE IF selectedKeyId = ""
       THEN RejectWith("upload_rejected", "Please select an API key first")
       ELSE IF Trim(datasetName) = <<>>
       THEN RejectWith("upload_rejected", "Please enter a dataset name")
       ELSE IF selectedKeyId \notin apiKeys
       THEN RejectWith("upload_rejected", "Selected API key not found")
       ELSE /\ isUploading' = TRUE
            /\ posts' = [posts EXCEPT !.upload = TRUE]
            /\ formEvent' = [kind |-> "upload_sent"]
            /\ UNCHANGED <<isEvaluating, lastAlert>>
    /\ UNCHANGED <<uploadedFile, datasetId, datasetName, experimentName>>
    /\ UNCHANGED pageVars

\* mutant: whatever dataset_id the body holds is stored
UploadResult_StoresAny(a) ==
    IF a.kind = "ok"
    THEN [datasetId |-> a.dataset_id,
          alert |-> AlertOf("File uploaded successfully! You can now run the evaluation.",
                            "", 0)]
    ELSE [datasetId |-> datasetId,
          alert |-> AlertOf("Failed to upload file: ",
                            ErrorMessage(a, "Upload failed with status").detail,
                            ErrorMessage(a, "Upload failed with status").status)]

\* the rest of the try block of handleUploadDataset and its catch, for answer a:
\* the dataset id to keep and the alert to show
UploadResult(a) ==
    IF a.kind = "ok" /\ Truthy(a.dataset_id)
    THEN [datasetId |-> a.dataset_id,
          alert |-> AlertOf("File uploaded successfully! You can now run the evaluation.",
                            "", 0)]
    ELSE [datasetId |-> datasetId,
          alert |-> AlertOf("Failed to upload file: ",
                            ErrorMessage(a, "Upload failed with status").detail,
                            ErrorMessage(a, "Upload failed with status").status)]

\* handleRunEvaluation, up to the await of fetch('/api/evaluations')
handleRunEvaluation ==
    /\ IF selectedKeyId = ""
       THEN RejectWith("run_rejected", "Please select an API key first")
       ELSE IF ~Truthy(datasetId)
       THEN RejectWith("run_rejected", "Please upload a dataset first")
       ELSE IF Trim(experimentName) = <<>>
       THEN RejectWith("run_rejected", "Please enter an experiment name")
       ELSE IF selectedKeyId \notin apiKeys
       THEN RejectWith("run_rejected", "Selected API key not found")
       ELSE /\ isEvaluating' = TRUE
            /\ posts' = [posts EXCEPT !.evaluation = TRUE]
            /\ formEvent' = [kind |-> "run_sent"]
            /\ UNCHANGED <<isUploading, lastAlert>>
    /\ UNCHANGED <<uploadedFile, datasetId, datasetName, experimentName>>
    /\ UNCHANGED pageVars

\* ---- actions ----

\* the file input changes: rendered in the file area, disabled={isUploading || !!datasetId}
FileSelect(picked) ==
    /\ activeTab = "upload"
    /\ FileAreaShown
    /\ ~isUploading
    /\ handleFileSelect(picked)
    /\ UNCHANGED <<isUploading, isEvaluating, experimentName, posts>>
    /\ UNCHANGED pageVars

\* typing into the Dataset Name input: disabled={isUploading}
TypeDatasetName(text) ==
    /\ activeTab = "upload"
    /\ MetadataShown
    /\ ~isUploading
    /\ text # datasetName
    /\ datasetName' = text
    /\ formEvent' = [kind |-> "typed"]
    /\ UNCHANGED <<uploadedFile, datasetId, isUploading, isEvaluating, experimentName,
                   posts, lastAlert>>
    /\ UNCHANGED pageVars

\* typing into the Experiment Name input: disabled={isEvaluating}
TypeExperimentName(text) ==
    /\ activeTab = "upload"
    /\ EvaluationConfigShown
    /\ ~isEvaluating
    /\ text # experimentName
    /\ experimentName' = text
    /\ formEvent' = [kind |-> "typed"]
    /\ UNCHANGED <<uploadedFile, datasetId, isUploading, isEvaluating, datasetName,
                   posts, lastAlert>>
    /\ UNCHANGED pageVars

\* a click on the Upload Dataset button
ClickUpload ==
    /\ activeTab = "upload"
    /\ MetadataShown
    /\ ~UploadButtonDisabled
    /\ handleUploadDataset

\* the POST of handleUploadDataset is answered: the rest of try, catch and finally
UploadSettles(a) ==
    /\ posts.upload
    /\ posts' = [posts EXCEPT !.upload = FALSE]
    /\ datasetId' = UploadResult(a).datasetId
    /\ lastAlert' = UploadResult(a).alert
    /\ isUploading' = FALSE
    /\ formEvent' = [kind |-> "upload_settled", answer |-> a]
    /\ UNCHANGED <<uploadedFile, isEvaluating, datasetName, experimentName>>
    /\ UNCHANGED pageVars

\* a click on the Run Evaluation button
ClickRun ==
    /\ activeTab = "upload"
    /\ ~RunButtonDisabled
    /\ handleRunEvaluation

\* setActiveTab('results') from the handler: ResultsTab mounts unless it is shown already
GoToResults == IF activeTab = "upload" THEN SwitchToResults ELSE UNCHANGED pageVars

\* the POST of handleRunEvaluation is answered: the rest of try, and catch.  A 2xx
\* answer clears the flag and switches the tab before the alert reads data.id, which
\* throws for a null body
EvaluationSettles(a) ==
    /\ posts.evaluation
    /\ posts' = [posts EXCEPT !.evaluation = FALSE]
    /\ isEvaluating' = FALSE
    /\ formEvent' = [kind |-> "run_settled", answer |-> a]
    /\ IF a.kind = "ok"
       THEN /\ lastAlert' = AlertOf("Evaluation job created successfully! Job ID: ", "data.id", 0)
            /\ GoToResults
       ELSE /\ lastAlert' = AlertOf("Failed to run evaluation: ",
                                    ErrorMessage(a, "Evaluation failed with status").detail,
                                    ErrorMessage(a, "Evaluation failed with status").status)
            /\ IF a.kind = "oknull" THEN GoToResults ELSE UNCHANGED pageVars
    /\ UNCHANGED <<uploadedFile, datasetId, isUploading, datasetName, experimentName>>

FormInit ==
    /\ FormIdle
    /\ PageInit

FormNext ==
    /\ \/ \E picked \in {NoFile} \cup {FileOf(n) : n \in FileNames} : FileSelect(picked)
       \/ \E text \in TypedNames : TypeDatasetName(text)
       \/ \E text \in TypedNames : TypeExperimentName(text)
       \/ ClickUpload
       \/ \E a \in UploadAnswers : UploadSettles(a)
       \/ ClickRun
       \/ \E a \in EvaluationAnswers : EvaluationSettles(a)
       \/ (\E k \in KeyIds \cup {""} : SelectKey(k)) /\ UNCHANGED formVars
       \/ SwitchToResults /\ UNCHANGED formVars
       \/ SwitchToUpload /\ UNCHANGED formVars
       \/ (\E i \in 1..MaxOutstanding : FetchSettlesUnmounted(i)) /\ UNCHANGED formVars
    /\ UNCHANGED <<proxyVars, scoreVars, renderVars, rowVars, storeVars>>

SpecForm == FormInit /\ [][FormNext]_vars

(***************************************************************************)
(* Part 6: the CSV row counter of handleUpload (Datasets page)             *)
(*                                                                         *)
(* A text is the sequence of its characters.                               *)
(***************************************************************************)

\* longest file text counted
MaxTextLen == 4

\* most computations of the row count of one text
MaxComputations == 2

\* the characters of a file text: a letter, the line feed, a blank, a carriage return
CsvChars == {"h", "\n", " ", "\r"}

CsvTexts == UNION {[1..n -> CsvChars] : n \in 0..MaxTextLen}

\* the white space and line terminators String.prototype.trim removes
WhiteSpace == {" ", "\n", "\r", "\t"}

\* fileContent.trim()
TrimWhiteSpace(t) ==
    LET solid == {i \in 1..Len(t) : t[i] \notin WhiteSpace}
    IN  IF solid = {} THEN <<>>
        ELSE SubSeq(t, CHOOSE i \in solid : \A k \in solid : i <= k,
                       CHOOSE i \in solid : \A k \in solid : i >= k)

\* .split('\n'): the pieces between the line feeds; one piece for a text without any
RECURSIVE Split(_)
Split(t) ==
    LET feeds == {i \in 1..Len(t) : t[i] = "\n"}
    IN  IF feeds = {} THEN <<t>>
        ELSE LET first == CHOOSE i \in feeds : \A k \in feeds : i <= k
             IN  <<SubSeq(t, 1, first - 1)>> \o Split(SubSeq(t, first + 1, Len(t)))

\* Math.max
Max(a, b) == IF a >= b THEN a ELSE b

\* mutant: the text is split as it is
RowCount_NoTrim(text) == Max(0, Len(Split(text)) - 1)

\* const lines = fileContent.trim().split('\n');
\* const rowCount = Math.max(0, lines.length - 1)
RowCount(text) == Max(0, Len(Split(TrimWhiteSpace(text))) - 1)

\* handleUpload reaches the row count for the selected file
CountRows ==
    /\ Len(rowCounts) < MaxComputations
    /\ rowCounts' = Append(rowCounts, RowCount(fileContent))
    /\ UNCHANGED fileContent

RowCountInit ==
    /\ fileContent \in CsvTexts
    /\ rowCounts = <<>>
    /\ ProxyIdle
    /\ PageIdle
    /\ ScoreIdle
    /\ RenderIdle
    /\ FormIdle
    /\ StoreIdle

RowCountNext ==
    /\ CountRows
    /\ UNCHANGED <<proxyVars, pageVars, scoreVars, renderVars, formVars, storeVars>>

SpecRowCount == RowCountInit /\ [][RowCountNext]_vars

(***************************************************************************)
(* Part 7: the dataset list of the Datasets page and its local store       *)
(*                                                                         *)
(* The page may be open in several tabs of one browser, which share        *)
(* localStorage.  A dataset is represented by its id, its row count, its   *)
(* content and its duplication factor; an id, the decimal text of          *)
(* Date.now(), by the number it spells.  The effects of a mount run as one *)
(* step; the re-render that setDatasets(parsedDatasets) asks for is a step *)
(* of its own, and so is the end of the await in handleUpload.             *)
(***************************************************************************)

\* most uploads in one run
MaxUploads == 1

Digits == <<"0", "1", "2", "3", "4", "5", "6", "7", "8", "9">>

\* parseInt of a text of digits; NaN, which is not greater than 1, is -1 here
RECURSIVE ParseInt(_)
ParseInt(t) ==
    IF t = <<>> THEN -1
    ELSE LET d == (CHOOSE n \in 1..10 : Digits[n] = t[Len(t)]) - 1
         IN  IF Len(t) = 1 THEN d ELSE ParseInt(SubSeq(t, 1, Len(t) - 1)) * 10 + d

\* an optional number: undefined, a number, or (in JSON) no member at all
UndefinedFactor == [kind |-> "undefined", num |-> 0]
AbsentFactor    == [kind |-> "absent", num |-> 0]
FactorOf(n)     == [kind |-> "number", num |-> n]

\* duplicationFactor && parseInt(duplicationFactor) > 1
\*     ? parseInt(duplicationFactor) : undefined
DuplicationFactorOf(text) ==
    IF text # <<>> /\ ParseInt(text) > 1 THEN FactorOf(ParseInt(text)) ELSE UndefinedFactor

\* what the upload form holds at a click on Upload Dataset: the text of the
\* selected file and the duplication factor input
UploadInputs ==
    {[content |-> <<"h">>, duplicationFactor |-> <<"1">>],
     [content |-> <<"h", "\n", "r", "\n">>, duplicationFactor |-> <<"2">>]}

\* const newDataset: Dataset = {...}
NewDataset(id, input) ==
    [id |-> id,
     rowCount |-> RowCount(input.content),
     csvContent |-> input.content,
     duplicationFactor |-> DuplicationFactorOf(input.duplicationFactor)]

\* JSON.stringify(datasets): a member whose value is undefined is left out
Stringify(datasets) ==
    [kind |-> "json",
     items |-> [i \in 1..Len(datasets) |->
                  [datasets[i] EXCEPT !.duplicationFactor =
                      IF @.kind = "undefined" THEN AbsentFactor ELSE @]]]

\* a stored text that is not JSON
UnparseableStore == [kind |-> "text", items |-> <<>>]

\* what a run that ended earlier may have left in the store
EarlierStores ==
    {AbsentStore, UnparseableStore,
     Stringify(<<NewDataset(0, [content |-> <<"h">>, duplicationFactor |-> <<"1">>])>>)}

\* the load effect: getItem, and setDatasets(JSON.parse(stored)) unless the
\* key is absent or the parse throws
LoadEffect(stored) ==
    IF stored.kind = "json" THEN [active |-> TRUE, datasets |-> stored.items]
    ELSE NoPending

\* mutant: an empty list is written as an empty array
PersistenceEffect_WritesEmpty(stored, datasets) == Stringify(datasets)

\* mutant: the list is merged into what the store holds
PersistenceEffect_Merges(stored, datasets) ==
    IF Len(datasets) > 0
    THEN Stringify(datasets \o SelectSeq(stored.items,
             LAMBDA d : \A i \in 1..Len(datasets) : datasets[i].id # d.id))
    ELSE stored

\* the persistence effect: what the store holds after it ran for datasets
PersistenceEffect(stored, datasets) ==
    IF Len(datasets) > 0 THEN Stringify(datasets) ELSE AbsentStore

\* datasets.filter(ds => ds.id !== id)
WithoutId(datasets, id) == SelectSeq(datasets, LAMBDA ds : ds.id # id)

\* the page is opened in tab t: both effects run for the initial empty list
Mount(t) ==
    /\ ~tabs[t].mounted
    /\ tabs' = [tabs EXCEPT ![t] = [mounted |-> TRUE, datasets |-> <<>>,
                                    loaded |-> LoadEffect(localStorage),
                                    upload |-> NoUpload]]
    /\ localStorage' = PersistenceEffect(localStorage, <<>>)
    /\ storeEvent' = [kind |-> "mount", tab |-> t]
    /\ UNCHANGED now

\* the re-render for setDatasets(parsedDatasets), and the persistence effect after it
LoadedRerender(t) ==
    /\ tabs[t].mounted
    /\ tabs[t].loaded.active
    /\ tabs' = [tabs EXCEPT ![t].datasets = tabs[t].loaded.datasets,
                            ![t].loaded = NoPending]
    /\ localStorage' = PersistenceEffect(localStorage, tabs[t].loaded.datasets)
    /\ storeEvent' = [kind |-> "loaded", tab |-> t]
    /\ UNCHANGED now

\* handleUpload up to await selectedFile.text(); the button is disabled while
\* isUploading, and the list it will prepend to is the one of this render
ClickUploadDataset(t, input) ==
    /\ tabs[t].mounted
    /\ ~tabs[t].loaded.active
    /\ ~tabs[t].upload.active
    /\ now <= MaxUploads
    /\ tabs' = [tabs EXCEPT ![t].upload = [active |-> TRUE,
                                           datasets |-> tabs[t].datasets,
                                           input |-> input]]
    /\ storeEvent' = [kind |-> "upload_started", tab |-> t]
    /\ UNCHANGED <<localStorage, now>>

\* the text of the file arrives: the rest of the try block, finally, and the
\* persistence effect
UploadResolves(t) ==
    /\ tabs[t].mounted
    /\ tabs[t].upload.active
    /\ LET list == <<NewDataset(now, tabs[t].upload.input)>> \o tabs[t].upload.datasets
       IN  /\ tabs' = [tabs EXCEPT ![t].datasets = list, ![t].upload = NoUpload]
           /\ localStorage' = PersistenceEffect(localStorage, list)
    /\ now' = now + 1
    /\ storeEvent' = [kind |-> "uploaded", tab |-> t]

\* selectedFile.text() rejects: catch and finally
UploadRejects(t) ==
    /\ tabs[t].mounted
    /\ tabs[t].upload.active
    /\ tabs' = [tabs EXCEPT ![t].upload = NoUpload]
    /\ storeEvent' = [kind |-> "upload_failed", tab |-> t]
    /\ UNCHANGED <<localStorage, now>>

\* handleDeleteDataset for a listed dataset, with the answer to confirm()
handleDeleteDataset(t, id, confirmed) ==
    /\ tabs[t].mounted
    /\ ~tabs[t].loaded.active
    /\ \E i \in 1..Len(tabs[t].datasets) : tabs[t].datasets[i].id = id
    /\ IF confirmed
       THEN /\ tabs' = [tabs EXCEPT ![t].datasets = WithoutId(tabs[t].datasets, id)]
            /\ localStorage' = PersistenceEffect(localStorage,
                                                 WithoutId(tabs[t].datasets, id))
            /\ storeEvent' = [kind |-> "deleted", tab |-> t]
       ELSE /\ storeEvent' = [kind |-> "delete_declined", tab |-> t]
            /\ UNCHANGED <<tabs, localStorage>>
    /\ UNCHANGED now

\* the tab leaves the page: the component and its state are gone, and a
\* handleUpload still awaiting its file finds no component
Unmount(t) ==
    /\ tabs[t].mounted
    /\ tabs' = [tabs EXCEPT ![t] = ClosedTab]
    /\ storeEvent' = [kind |-> "unmount", tab |-> t]
    /\ UNCHANGED <<localStorage, now>>

StoreInit ==
    /\ localStorage \in EarlierStores
    /\ tabs = [t \in Tabs |-> ClosedTab]
    /\ now = 1
    /\ storeEvent = [kind |-> "none", tab |-> "t1"]
    /\ ProxyIdle
    /\ PageIdle
    /\ ScoreIdle
    /\ RenderIdle
    /\ FormIdle
    /\ RowCountIdle

StoreNext ==
    /\ \/ \E t \in Tabs : Mount(t)
       \/ \E t \in Tabs : LoadedRerender(t)
       \/ \E t \in Tabs, input \in UploadInputs : ClickUploadDataset(t, input)
       \/ \E t \in Tabs : UploadResolves(t)
       \/ \E t \in Tabs : UploadRejects(t)
       \/ \E t \in Tabs, confirmed \in BOOLEAN :
             \E id \in {tabs[t].datasets[i].id : i \in 1..Len(tabs[t].datasets)} :
                handleDeleteDataset(t, id, confirmed)
       \/ \E t \in Tabs : Unmount(t)
    /\ UNCHANGED <<proxyVars, pageVars, scoreVars, renderVars, formVars, rowVars>>

SpecDatasets == StoreInit /\ [][StoreNext]_vars

(***************************************************************************)
(* Claims about the proxy route handlers                                   *)
(***************************************************************************)

\* C1: in both handlers and in both modes, a request without an X-API-KEY
\* header is answered at once with 401, and neither an outbound backend call
\* nor a fixture read has happened.
C1_MissingKeyFailsFast ==
    (request.handler \in Handlers /\ request.apiKey = Null) =>
        /\ proxyPc = "responded"
        /\ response.status = 401
        /\ outboundCalls = 0
        /\ fixtureReads = {}

\* C1 witness: the assistant handler and the real-backend mode answered 401
C1_Witness ==
    /\ ~useMockData
    /\ request.handler = "assistant"
    /\ request.apiKey = Null
    /\ response.status = 401

\* C2 (as claimed): with the key present and a parsed upstream body, the
\* answer carries exactly the upstream status, for every status and both handlers.
C2_StatusVerbatim ==
    (proxyPc = "responded" /\ upstream.state = "parsed") =>
        response.status = upstream.status

\* C3: when the outbound call rejects or the upstream body cannot be parsed,
\* the answer is 500 with an {error, details} payload, never a success status.
C3_TransportFailureIs500 ==
    (proxyPc = "responded" /\ upstream.state \in {"rejected", "unparseable"}) =>
        /\ response.status = 500
        /\ response.kind = "error"
        /\ response.keys = {"error", "details"}

\* C3 witness: an upstream body that could not be parsed was answered
C3_Witness ==
    /\ proxyPc = "responded"
    /\ upstream.state = "unparseable"
    /\ request.handler = "evaluations"

\* C4: in mock mode a fixture that cannot be read or parsed is answered with
\* 404 and an {error, details} payload, never with 200 or the generic 500.
C4_FixtureFailureIs404 ==
    \A r \in fixtureReads :
        r.outcome # "ok" =>
            /\ proxyPc = "responded"
            /\ response.status = 404
            /\ response.kind = "error"
            /\ response.keys = {"error", "details"}

\* C4 witness: the fixture file held malformed JSON
C4_Witness ==
    /\ useMockData
    /\ \E r \in fixtureReads : r.outcome = "SyntaxError"
    /\ proxyPc = "responded"

(***************************************************************************)
(* Claims about the polling loop of ResultsTab                             *)
(***************************************************************************)

\* the in-flight statuses as the specification names them
InFlightStatuses == {pending, queued, processing}

\* a job of the list carries exactly one of the in-flight statuses
SomeInFlight(jobs) == \E i \in 1..Len(jobs) : jobs[i] \in InFlightStatuses

\* this step issues a GET /api/evaluations request on behalf of cause c
Issues(c) ==
    /\ Len(outstanding') = Len(outstanding) + 1
    /\ outstanding'[Len(outstanding')].cause = c

\* this step issues a GET /api/evaluations request
IssuesAny == Len(outstanding') = Len(outstanding) + 1

\* C5: while the results view is shown, a polling timer is live exactly when
\* some job of the stored snapshot is pending, queued or processing, and a
\* timer-triggered fetch is only ever issued while the snapshot has such a job.
C5_TimerIffInFlight ==
    [][ /\ ResultsMounted' => ((intervals' > 0) <=> SomeInFlight(evalJobs'))
        /\ Issues("timer") => SomeInFlight(evalJobs) ]_vars

\* C5 witness: a snapshot without in-flight job replaced one that had a timer
C5_Witness ==
    /\ lastEvent.kind = "stored"
    /\ lastEvent.timerBefore
    /\ evalJobs = <<completed>>
    /\ intervals = 0

\* C6: right after a manual refresh stored a snapshot without in-flight job,
\* no timer is live and no timer callback can fire.
C6_ManualRefreshStopsLoop ==
    (lastEvent.kind = "stored" /\ lastEvent.cause = "manual" /\ ~SomeInFlight(evalJobs)) =>
        (intervals = 0 /\ ~ENABLED TimerTick)

\* C6 witness: the manual refresh came back while a timer was pending
C6_Witness ==
    /\ lastEvent.kind = "stored"
    /\ lastEvent.cause = "manual"
    /\ lastEvent.timerBefore
    /\ ~SomeInFlight(evalJobs)
    /\ intervals = 0

\* the step in which a fetch of the shown results view fails
FetchFailsStep ==
    /\ Len(outstanding') = Len(outstanding) - 1
    /\ lastEvent'.kind = "failed"

\* C7: a failed fetch sets the error state, leaves the stored list as it was,
\* and leaves the timer running when that list still has an in-flight job.
C7_FailureKeepsList ==
    [][ FetchFailsStep =>
          /\ error' # Null
          /\ evalJobs' = evalJobs
          /\ intervals' = intervals
          /\ SomeInFlight(evalJobs) => intervals' > 0 ]_vars

\* C7 witness: a fetch failed while the list had a job in flight
C7_Witness ==
    /\ lastEvent.kind = "failed"
    /\ error # Null
    /\ evalJobs = <<processing>>
    /\ intervals > 0

\* the results view is deactivated: torn down, or shown without a key
Deactivated == ~ResultsMounted \/ selectedKeyId = ""

\* C8: once deactivated no polling timer is live and no GET /api/evaluations
\* request is issued, whatever the last snapshot held.
C8_DeactivationCancels ==
    [][ Deactivated' => (intervals' = 0 /\ ~IssuesAny) ]_vars

\* C8 witness: the view was torn down while a timer was live for in-flight jobs
C8_Witness ==
    /\ lastEvent.kind = "unmount"
    /\ lastEvent.timerBefore
    /\ lastEvent.inFlightBefore
    /\ intervals = 0

\* C9 (as claimed): a status that is an in-flight status up to letter case
\* gets the in-flight badge and keeps the polling timer alive.
C9_CaseInsensitiveEverywhere ==
    ResultsMounted =>
        \A i \in 1..Len(evalJobs) :
            ToLowerCase(evalJobs[i]) \in InFlightStatuses =>
                (GetStatusColor(evalJobs[i]) = "yellow" /\ intervals > 0)

\* C20: a step in which a successful answer that is a bare array, or an
\* object with a data array, reaches the mounted results view stores exactly
\* the jobs of that array as the job list, and leaves the error state as it
\* was.
C20_BothShapesAccepted ==
    [][(lastEvent'.kind = "stored" /\ lastEvent'.answer.kind \in {"array", "data"}) =>
          (evalJobs' = lastEvent'.answer.jobs /\ error' = error)]_vars

\* an object with a data array of at least one job was stored
C20_Witness ==
    /\ lastEvent.kind = "stored"
    /\ lastEvent.answer.kind = "data"
    /\ Len(lastEvent.answer.jobs) >= 1
    /\ evalJobs = lastEvent.answer.jobs
    /\ error = Null

(***************************************************************************)
(* Claims about score objects                                              *)
(***************************************************************************)

\* C10: for a score object, isNewScoreObject is true exactly when it has both
\* the summary_scores and the individual_scores key, isLegacyScoreObject is
\* true exactly when it has the cosine_similarity key; both are false for
\* null and undefined.
C10_TypeGuards ==
    guardResult.called =>
        IF guardResult.arg \in {ScoreNull, ScoreUndefined}
        THEN ~guardResult.isNew /\ ~guardResult.isLegacy
        ELSE /\ guardResult.isNew <=>
                    {"summary_scores", "individual_scores"} \subseteq guardResult.arg.keys
             /\ guardResult.isLegacy <=> ("cosine_similarity" \in guardResult.arg.keys)

\* C10 witness: an object with only one of the two current-variant keys was
\* classified as neither variant
C10_Witness ==
    /\ guardResult.called
    /\ guardResult.arg = [type |-> "object", keys |-> {"summary_scores"}]
    /\ ~guardResult.isNew
    /\ ~guardResult.isLegacy

\* C11: getScoreObject returns the scores field when that field holds a score
\* object; with scores absent or null it returns the score field when that
\* holds a score object, and null when both fields are absent or null.
C11_ScoresPreferred ==
    resolved.called =>
        /\ job.scores \in ScoreObjects => resolved.value = job.scores
        /\ (job.scores \notin ScoreObjects /\ job.score \in ScoreObjects) =>
               resolved.value = job.score
        /\ (job.scores \notin ScoreObjects /\ job.score \notin ScoreObjects) =>
               resolved.value = ScoreNull

\* C11 witness: both fields hold different score objects and scores was returned
C11_Witness ==
    /\ resolved.called
    /\ job.scores = [type |-> "object", keys |-> {"summary_scores", "individual_scores"}]
    /\ job.score = [type |-> "object", keys |-> {"cosine_similarity"}]
    /\ resolved.value = job.scores

(***************************************************************************)
(* Claims about the rendering of a job                                     *)
(***************************************************************************)

\* the score object the table resolves for the job it was handed
ResolvedScore == getScoreObject(renderJob)

\* the neutral placeholders of the table
UnavailableStates == {"no_detailed", "no_individual"}

\* the resolved score object is absent
ResolvedAbsent == ResolvedScore.type \in {"null", "undefined"}

\* the resolved score object has the keys of neither variant
ResolvedNeither ==
    /\ ResolvedScore.type = "object"
    /\ ~({"summary_scores", "individual_scores"} \subseteq ResolvedScore.keys)
    /\ "cosine_similarity" \notin ResolvedScore.keys

\* the resolved score object is of the current variant, and its
\* individual_scores is missing or empty
ResolvedCurrentWithoutRows ==
    /\ ResolvedScore.type = "object"
    /\ {"summary_scores", "individual_scores"} \subseteq ResolvedScore.keys
    /\ (ResolvedScore.individual.isNull \/ ResolvedScore.individual.rows = <<>>)

\* C12: whenever the table has been rendered for a job whose resolved score
\* object is absent, has the keys of neither variant, or is of the current
\* variant with a missing or empty individual_scores, the table is one of the
\* neutral placeholders and the render did not throw.
C12_UnavailableIsNeutral ==
    (tableView.rendered
        /\ (ResolvedAbsent \/ ResolvedNeither \/ ResolvedCurrentWithoutRows))
    => tableView.state \in UnavailableStates

\* the table was rendered for a current-variant object with an empty array
C12_Witness ==
    /\ tableView.rendered
    /\ ResolvedCurrentWithoutRows
    /\ ~ResolvedScore.individual.isNull
    /\ tableView.state = "no_individual"

\* the resolved score object has the cosine_similarity key and no other
ResolvedLegacyOnly ==
    /\ ResolvedScore.type = "object"
    /\ ResolvedScore.keys = {"cosine_similarity"}

\* C13 (as claimed): for a job whose score object has only the
\* cosine_similarity key, the table is the no-detailed-results placeholder
\* and the card still displays a summary score, that is a percentage that is
\* a number.
C13_LegacySummaryShown ==
    (tableView.rendered /\ cardView.rendered /\ ResolvedLegacyOnly) =>
        /\ tableView.state = "no_detailed"
        /\ cardView.shown
        /\ ~cardView.isNaN

\* the resolved score object is of the current variant and has at least one
\* individual record
ResolvedCurrentWithRows ==
    /\ ResolvedScore.type = "object"
    /\ {"summary_scores", "individual_scores"} \subseteq ResolvedScore.keys
    /\ ~ResolvedScore.individual.isNull
    /\ Len(ResolvedScore.individual.rows) >= 1

\* the individual records of the resolved score object
ResolvedRows == ResolvedScore.individual.rows

\* the cell displays the trace score ts
CellShows(cell, ts) ==
    IF ts.data_type = "CATEGORICAL"
    THEN cell.format.kind = "cat" /\ cell.format.text = ts.cat
    ELSE cell.format.kind = "num" /\ cell.format.hundredths = ToFixed2(ts.num)

\* the cell displays 'N/A' with the neutral styling
CellIsNA(cell) ==
    /\ cell.format.kind = "na"
    /\ cell.format.text = "N/A"
    /\ cell.format.style = [color |-> "hsl(330, 3%, 49%)", bg |-> "transparent"]

\* C14: for a current-variant score object with at least one individual
\* record, the metric columns of the rendered table are the trace_scores
\* names of the first record, in order; every row has one cell per column,
\* and the cell shows a trace score of that row with the column's name, or
\* 'N/A' with the neutral styling when the row has none of that name.
C14_ColumnsFromFirstRecord ==
    (tableView.rendered /\ ResolvedCurrentWithRows) =>
        /\ tableView.state = "table"
        /\ Len(tableView.columns) = Len(ResolvedRows[1].trace_scores)
        /\ \A c \in 1..Len(tableView.columns) :
               tableView.columns[c] = ResolvedRows[1].trace_scores[c].name
        /\ Len(tableView.rows) = Len(ResolvedRows)
        /\ \A r \in 1..Len(ResolvedRows) :
               /\ Len(tableView.rows[r].cells) = Len(tableView.columns)
               /\ \A c \in 1..Len(tableView.columns) :
                      LET ts == ResolvedRows[r].trace_scores
                          named == {i \in 1..Len(ts) : ts[i].name = tableView.columns[c]}
                          cell == tableView.rows[r].cells[c]
                      IN  IF named = {} THEN CellIsNA(cell)
                          ELSE \E i \in named : CellShows(cell, ts[i])

\* a table of two rows was rendered in which the second row lacks the metric
\* of a column and has a metric that got no column
C14_Witness ==
    /\ tableView.rendered
    /\ ResolvedCurrentWithRows
    /\ tableView.state = "table"
    /\ Len(tableView.rows) = 2
    /\ \E c \in 1..Len(tableView.columns) : CellIsNA(tableView.rows[2].cells[c])
    /\ \E i \in 1..Len(ResolvedRows[2].trace_scores) :
           \A c \in 1..Len(tableView.columns) :
               tableView.columns[c] # ResolvedRows[2].trace_scores[i].name

\* the severity bucket a cell's styling stands for
Bucket(cell) ==
    IF cell.format.style = StyleGreen THEN "good"
    ELSE IF cell.format.style = StyleYellow THEN "warning"
    ELSE IF cell.format.style = StyleRed THEN "bad"
    ELSE "none"

\* the bucket the claim gives a value, in ten-thousandths
ClaimedBucket(v) ==
    IF v >= 7000 THEN "good"
    ELSE IF v >= 5000 /\ v < 7000 THEN "warning"
    ELSE "bad"

\* the cells of the rendered table whose row has exactly one trace score of
\* the column's name, a NUMERIC one: <<row, column, index of the trace score>>
NumericCells ==
    {rc \in (1..Len(tableView.rows)) \X (1..Len(tableView.columns)) \X (1..MaxTraceScores + 1) :
        LET ts == ResolvedRows[rc[1]].trace_scores
        IN  /\ rc[3] <= Len(ts)
            /\ ts[rc[3]].name = tableView.columns[rc[2]]
            /\ ts[rc[3]].data_type = "NUMERIC"
            /\ \A i \in 1..Len(ts) : ts[i].name = tableView.columns[rc[2]] => i = rc[3]}

\* C15: every cell that shows a NUMERIC trace score of value v is styled
\* 'good' when v >= 0.7, 'warning' when 0.5 <= v < 0.7 and 'bad' when
\* v < 0.5; 0.7 itself is 'good' and 0.5 itself is 'warning'.
C15_NumericBuckets ==
    (tableView.rendered /\ tableView.state = "table") =>
        \A rc \in NumericCells :
            Bucket(tableView.rows[rc[1]].cells[rc[2]])
                = ClaimedBucket(ResolvedRows[rc[1]].trace_scores[rc[3]].num)

\* a cell showing the value 0.7 exactly was rendered, and is 'good'
C15_Witness ==
    /\ tableView.rendered
    /\ tableView.state = "table"
    /\ \E rc \in NumericCells :
           /\ ResolvedRows[rc[1]].trace_scores[rc[3]].num = 7000
           /\ Bucket(tableView.rows[rc[1]].cells[rc[2]]) = "good"

\* what the claim says is displayed for a text under a threshold: the first
\* threshold characters and the ellipsis when it is longer, else the text itself
ShownAsClaimed(view, text, limit) ==
    IF Len(text) > limit
    THEN view.truncated /\ view.summary = SubSeq(text, 1, limit) \o <<".", ".", ".">>
    ELSE ~view.truncated /\ view.summary = text

\* the three text cells of every row, for texts of at least minLen characters
TextCellsAsClaimed(minLen) ==
    \A r \in 1..Len(tableView.rows) :
        LET item == ResolvedRows[r]
            row  == tableView.rows[r]
        IN  /\ (item.question.defined /\ Len(item.question.chars) >= minLen)
                   => ShownAsClaimed(row.question, item.question.chars, 150)
            /\ (item.answer.defined /\ Len(item.answer.chars) >= minLen)
                   => ShownAsClaimed(row.answer, item.answer.chars, 150)
            /\ (item.ground_truth.defined /\ Len(item.ground_truth.chars) >= minLen)
                   => ShownAsClaimed(row.groundTruth, item.ground_truth.chars, 150)

\* the comment under every cell whose row has exactly one trace score of the
\* column's name: an empty comment shows nothing
CommentsAsClaimed ==
    \A r \in 1..Len(tableView.rows) : \A c \in 1..Len(tableView.columns) :
        LET ts == ResolvedRows[r].trace_scores
            named == {i \in 1..Len(ts) : ts[i].name = tableView.columns[c]}
            line == tableView.rows[r].cells[c].comment
        IN  \A i \in named :
                (named = {i} /\ ts[i].comment.defined) =>
                    IF Len(ts[i].comment.chars) = 0 THEN ~line.shown
                    ELSE line.shown /\ ShownAsClaimed(line.text, ts[i].comment.chars, 50)

\* C16 (as claimed): every question, answer and ground-truth text is shown
\* cut at 150 characters with the ellipsis when longer and unchanged
\* otherwise, and every comment likewise at 50 characters.
C16_TruncationAsClaimed ==
    (tableView.rendered /\ tableView.state = "table") =>
        (TextCellsAsClaimed(0) /\ CommentsAsClaimed)

\* C16 (amended): every non-empty question, answer and ground-truth text is
\* shown cut at 150 characters with the ellipsis when longer and unchanged
\* otherwise, and every comment likewise at 50 characters; an empty
\* question, answer or ground truth is shown as 'N/A'.
C16_TruncationOfNonEmpty ==
    (tableView.rendered /\ tableView.state = "table") =>
        /\ TextCellsAsClaimed(1)
        /\ CommentsAsClaimed
        /\ \A r \in 1..Len(tableView.rows) :
               /\ ResolvedRows[r].question.chars = <<>>
                      => tableView.rows[r].question.summary = <<"N", "/", "A">>
               /\ ResolvedRows[r].answer.chars = <<>>
                      => tableView.rows[r].answer.summary = <<"N", "/", "A">>
               /\ ResolvedRows[r].ground_truth.chars = <<>>
                      => tableView.rows[r].groundTruth.summary = <<"N", "/", "A">>

\* a question of 151 characters was rendered as its first 150 and the
\* ellipsis, 153 characters in all
C16_Witness ==
    /\ tableView.rendered
    /\ tableView.state = "table"
    /\ \E r \in 1..Len(tableView.rows) :
           /\ Len(ResolvedRows[r].question.chars) = 151
           /\ tableView.rows[r].question.truncated
           /\ Len(tableView.rows[r].question.summary) = 153

\* C17 (as claimed): the card displays a percentage exactly when the job's
\* score is a number, and then it is the score times 100 to one decimal
\* place; for a score that is absent, null or not a number none is displayed.
C17_PercentageOnlyForNumber ==
    cardView.rendered =>
        /\ cardView.shown <=> renderJob.score.type = "number"
        /\ cardView.shown =>
               (~cardView.isNaN /\ cardView.tenths = (renderJob.score.num + 5) \div 10)

(***************************************************************************)
(* Claims about the upload and evaluation form                             *)
(***************************************************************************)

\* a text is blank: empty, or nothing but spaces
Blank(text) == \A i \in 1..Len(text) : text[i] = " "

\* a precondition of the dataset upload fails
UploadPreconditionFails ==
    \/ ~uploadedFile.chosen
    \/ selectedKeyId = ""
    \/ selectedKeyId \notin apiKeys
    \/ Blank(datasetName)

\* a precondition of the evaluation submission fails
RunPreconditionFails ==
    \/ selectedKeyId = ""
    \/ selectedKeyId \notin apiKeys
    \/ datasetId.kind = "null"
    \/ Blank(experimentName)

\* the messages of the failed preconditions
PreconditionMessages ==
    {"Please select a file first", "Please select an API key first",
     "Please enter a dataset name", "Selected API key not found",
     "Please upload a dataset first", "Please enter an experiment name"}

\* a step that only shows one of these messages: no POST is issued, and the
\* busy flags and the dataset id are as before
OnlyShowsMessage ==
    /\ posts' = posts
    /\ isUploading' = isUploading
    /\ isEvaluating' = isEvaluating
    /\ datasetId' = datasetId
    /\ lastAlert'.text \in PreconditionMessages

\* C18: in every reachable state in which a precondition of the dataset
\* upload fails, a call of handleUploadDataset can only show a message: it
\* issues no POST and leaves isUploading, isEvaluating and datasetId as they
\* are; likewise a call of handleRunEvaluation in every reachable state in
\* which a precondition of the evaluation submission fails.
C18_FailedPreconditionOnlyAlerts ==
    /\ UploadPreconditionFails =>
           (ENABLED handleUploadDataset
            /\ ~ENABLED (handleUploadDataset /\ ~OnlyShowsMessage))
    /\ RunPreconditionFails =>
           (ENABLED handleRunEvaluation
            /\ ~ENABLED (handleRunEvaluation /\ ~OnlyShowsMessage))

\* the upload button was clicked with a file chosen and a name typed but no
\* key selected: the message was shown and nothing is under way
C18_Witness ==
    /\ formEvent.kind = "upload_rejected"
    /\ uploadedFile.chosen
    /\ selectedKeyId = ""
    /\ lastAlert.text = "Please select an API key first"
    /\ ~posts.upload
    /\ ~isUploading
    /\ datasetId.kind = "null"

\* the upload was just answered with a success status and a body without a
\* dataset_id: an object that lacks the key, or null
SettledWithoutDatasetId ==
    /\ formEvent.kind = "upload_settled"
    /\ \/ formEvent.answer.kind = "oknull"
       \/ (formEvent.answer.kind = "ok" /\ formEvent.answer.dataset_id.kind = "undefined")

\* C19: right after an upload is answered with a success status and a body
\* without a dataset_id, datasetId is still null, the alert shown is the
\* upload failure message, isUploading is cleared, and the evaluation step
\* stays disabled: its configuration card is hidden and its button disabled.
C19_NoDatasetIdIsFailure ==
    SettledWithoutDatasetId =>
        /\ datasetId.kind = "null"
        /\ lastAlert.text = "Failed to upload file: "
        /\ ~isUploading
        /\ ~EvaluationConfigShown
        /\ RunButtonDisabled

\* an object body without the key was answered: the alert carries the
\* message thrown for it
C19_Witness ==
    /\ formEvent.kind = "upload_settled"
    /\ formEvent.answer.kind = "ok"
    /\ formEvent.answer.dataset_id.kind = "undefined"
    /\ datasetId.kind = "null"
    /\ lastAlert.detail = "No dataset_id returned from upload"
    /\ RunButtonDisabled

(***************************************************************************)
(* Claims about the mock mode of GET /evaluations/{id}                     *)
(***************************************************************************)

\* a request to the evaluations handler in mock mode with a key present has
\* been answered
MockAnswered ==
    /\ proxyPc = "responded"
    /\ request.handler = "evaluations"
    /\ useMockData
    /\ ~MissingKey(request.apiKey)

\* the fixture the claim assigns to an id
ClaimedFixture(id) ==
    IF id \in {"44", "2"} THEN "evaluation-sample-2.json"
                          ELSE "evaluation-sample-1.json"

\* the backend was never contacted while answering
BackendUntouched == outboundCalls = 0 /\ upstream = NoUpstream

\* C26 (as stated): in mock mode, GET /evaluations/{id} with a key present
\* never contacts the backend and answers 200 with the second fixture for
\* the ids '44' and '2' and with the default fixture for every other id.
C26_MockAlwaysAnswersFixture ==
    MockAnswered =>
        /\ BackendUntouched
        /\ response = [status |-> 200, kind |-> "fixture",
                       file |-> ClaimedFixture(request.id)]

\* C26 (amended): in mock mode, GET /evaluations/{id} with a key present
\* never contacts the backend; it reads exactly the fixture the id selects
\* (the second one for '44' and '2', the default one otherwise) and answers
\* 200 with it when the fixture file is read and parsed, and 404 when the
\* read or the parse fails.
C26_MockAnswersFixtureWhenReadable ==
    MockAnswered =>
        /\ BackendUntouched
        /\ \E fx \in FixtureOutcomes :
              /\ fixtureReads = {[file |-> ClaimedFixture(request.id),
                                  outcome |-> fx]}
              /\ IF fx = "ok"
                    THEN response = [status |-> 200, kind |-> "fixture",
                                     file |-> ClaimedFixture(request.id)]
                    ELSE response.status = 404

\* C26 witness: the id '2' was answered 200 with the second fixture
C26_Witness ==
    /\ MockAnswered
    /\ request.id = "2"
    /\ response = [status |-> 200, kind |-> "fixture",
                   file |-> "evaluation-sample-2.json"]

(***************************************************************************)
(* Claims about the exclusiveness of the two score variants                *)
(***************************************************************************)

\* the number of classes (current, legacy, unavailable) the two type guards
\* put the last argument into; unavailable is the class of an argument that
\* neither guard accepts
ClassesOfArgument ==
    Cardinality({c \in {"current", "legacy", "unavailable"} :
        \/ c = "current" /\ guardResult.isNew
        \/ c = "legacy" /\ guardResult.isLegacy
        \/ c = "unavailable" /\ ~guardResult.isNew /\ ~guardResult.isLegacy})

\* C30: isNewScoreObject and isLegacyScoreObject are never both true of the
\* same score object, so every score object is in exactly one of the classes
\* current, legacy and unavailable.
C30_VariantsExclusive ==
    guardResult.called =>
        /\ ~(guardResult.isNew /\ guardResult.isLegacy)
        /\ ClassesOfArgument = 1

(***************************************************************************)
(* Claims about overlapping fetches and the timer of ResultsTab            *)
(***************************************************************************)

\* the list an answer that reaches setEvalJobs carries: the array itself, the
\* data array, or the empty list for an object without data
BodyOf(a) == IF a.kind \in {"array", "data"} THEN a.jobs ELSE <<>>

\* C23: overlapping job-list fetches are neither deduplicated nor guarded by
\* a sequence number: whenever an answer is stored, the stored list is the
\* body of that answer, also when a later-issued request was answered and
\* stored before it, so the answer that arrives last decides the list.
C23_LastArrivalWins ==
    lastEvent.kind = "stored" => evalJobs = BodyOf(lastEvent.answer)

\* C23 witness: the answer to the request issued first arrived after the
\* answer to a later request had been stored and had stopped the timer; its
\* older list, with a job in flight, replaced the newer one and the timer
\* was created again
C23_Witness ==
    /\ lastEvent.kind = "stored"
    /\ lastEvent.overtaken
    /\ Len(outstanding) = 0
    /\ ~lastEvent.timerBefore
    /\ evalJobs = <<processing>>
    /\ evalJobs = BodyOf(lastEvent.answer)
    /\ intervals = 1

\* the poll was running before the fetch failed, or the failed fetch is the
\* first one after activation
PollExpected ==
    /\ lastEvent.kind = "failed"
    /\ (lastEvent.timerBefore \/ lastEvent.cause = "mount")

\* C24 (as stated): after a failed fetch the timer of the poll is armed for
\* the next fetch, whether the failed fetch was issued by the poll or is the
\* very first fetch after activation.
C24_RetryAfterAnyFailure ==
    PollExpected => intervals > 0

\* C24 (amended): a failed fetch neither cancels nor creates the timer: when
\* the timer was armed before the failure it is still armed afterwards, so
\* the next fetch is issued on the same cadence; when the very first fetch
\* after activation fails no timer exists and none is created.
C24_FailureLeavesTimerAsItWas ==
    lastEvent.kind = "failed" =>
        /\ lastEvent.timerBefore => (intervals = 1 /\ SomeInFlight(evalJobs))
        /\ ~lastEvent.timerBefore => intervals = 0
        /\ lastEvent.cause = "mount" => (intervals = 0 /\ evalJobs = <<>>)

\* C24 witness: a fetch issued by the timer failed and the timer is still armed
C24_Witness ==
    /\ lastEvent.kind = "failed"
    /\ lastEvent.cause = "timer"
    /\ lastEvent.timerBefore
    /\ error # Null
    /\ intervals = 1

\* C27: at most one interval timer is active at any time in the results view.
C27_AtMostOneTimer == intervals <= 1

\* C27 witness: a list with a job in flight was stored while a timer was
\* active, and one timer is active afterwards
C27_Witness ==
    /\ lastEvent.kind = "stored"
    /\ lastEvent.timerBefore
    /\ SomeInFlight(evalJobs)
    /\ intervals = 1

\* some request of the shown results view is still under way
SomeFetchOutstanding ==
    \E i \in 1..Len(outstanding) : outstanding[i].live

\* C28: the loading flag of the results view is true whenever at least one
\* job-list fetch is outstanding.
C28_LoadingWhileOutstanding ==
    (ResultsMounted /\ SomeFetchOutstanding) => isLoading

(***************************************************************************)
(* Claims about the dataset id an evaluation is submitted for              *)
(***************************************************************************)

\* the step in which POST /evaluations is issued
EvaluationIssuedStep == posts'.evaluation /\ ~posts.evaluation

\* the step in which an upload of the selected file succeeds and its id is kept
UploadSucceedsStep ==
    /\ posts.upload
    /\ formEvent'.kind = "upload_settled"
    /\ formEvent'.answer.kind = "ok"
    /\ Truthy(formEvent'.answer.dataset_id)
    /\ datasetId' = formEvent'.answer.dataset_id
    /\ uploadedFile.chosen
    /\ uploadedFile' = uploadedFile

\* C29: datasetId is set only by a successful upload of the selected file that
\* returned a dataset_id, and every change of the selected file leaves it
\* unset; an evaluation-creation request is issued only while datasetId is
\* set, so none is issued for a file that has not been uploaded.
C29_EvaluationOnlyForUploadedFile ==
    [][ /\ (datasetId' # datasetId /\ datasetId' # NoDatasetId) => UploadSucceedsStep
        /\ uploadedFile' # uploadedFile => datasetId' = NoDatasetId
        /\ EvaluationIssuedStep =>
              (Truthy(datasetId) /\ datasetId' = datasetId /\ uploadedFile.chosen) ]_vars

\* C29 witness: an evaluation was submitted for the uploaded file
C29_Witness ==
    /\ formEvent.kind = "run_sent"
    /\ posts.evaluation
    /\ uploadedFile.chosen
    /\ datasetId = DatasetIdOf("string", 0, "12")

(***************************************************************************)
(* Claims about the CSV row counter                                        *)
(***************************************************************************)

\* the number of newline-delimited lines of a text as it stands: every line
\* feed ends a line, and what follows the last line feed is one more line
\* unless it is empty (the empty text has no line)
NewlineDelimitedLines(t) ==
    LET feeds == {i \in 1..Len(t) : t[i] = "\n"}
    IN  Cardinality(feeds) + (IF Len(t) > 0 /\ t[Len(t)] # "\n" THEN 1 ELSE 0)

\* the text from its first to its last character that is not white space
Core(t) ==
    LET solid == {i \in 1..Len(t) : t[i] \notin {" ", "\n", "\r", "\t"}}
    IN  [k \in 1..Cardinality({i \in 1..Len(t) :
                                  \E a \in solid, b \in solid : a <= i /\ i <= b}) |->
            t[k - 1 + CHOOSE a \in solid : \A b \in solid : a <= b]]

\* every computed count is the same non-negative integer
CountsAgree ==
    \A i \in 1..Len(rowCounts) : rowCounts[i] \in Nat /\ rowCounts[i] = rowCounts[1]

\* C22 (as stated): for every CSV text the computed row count is
\* max(0, number of newline-delimited lines of the text - 1); it is never
\* negative, it is 0 for the empty and for a header-only text, and computing
\* it twice gives the same integer.
C22_RowCountOfLines ==
    /\ CountsAgree
    /\ \A i \in 1..Len(rowCounts) :
          rowCounts[i] = (IF NewlineDelimitedLines(fileContent) >= 1
                          THEN NewlineDelimitedLines(fileContent) - 1 ELSE 0)

\* C22 (amended): for every CSV text the computed row count is the number of
\* line feeds that remain after leading and trailing white space is removed
\* from the text, that is max(0, lines of the trimmed text - 1); it is never
\* negative, it is 0 for the empty text, for a text of white space only and
\* for a header-only text, and computing it twice gives the same integer.
C22_RowCountOfTrimmedLines ==
    /\ CountsAgree
    /\ \A i \in 1..Len(rowCounts) :
          /\ rowCounts[i] = Cardinality({k \in 1..Len(Core(fileContent)) :
                                            Core(fileContent)[k] = "\n"})
          /\ NewlineDelimitedLines(Core(fileContent)) <= 1 => rowCounts[i] = 0

\* C22 witness: the row count of a text with a header, one row and a closing
\* line feed was computed twice and is 1 both times
C22_Witness ==
    /\ fileContent = <<"h", "\n", "h", "\n">>
    /\ rowCounts = <<1, 1>>

(***************************************************************************)
(* Claims about the dataset store                                          *)
(***************************************************************************)

\* the step is a run of the persistence effect of tab t: a mount, the
\* re-render after the load, a finished upload or a confirmed deletion
PersistenceRan(t) ==
    /\ storeEvent'.tab = t
    /\ storeEvent'.kind \in {"mount", "loaded", "uploaded", "deleted"}
    /\ storeEvent' # storeEvent \/ tabs' # tabs \/ localStorage' # localStorage

\* the JSON text of a list: its datasets in order, each with its id, row
\* count and content, and with its duplication factor unless that is undefined
JsonOf(list) ==
    [kind |-> "json",
     items |-> [i \in 1..Len(list) |->
                  [id |-> list[i].id, rowCount |-> list[i].rowCount,
                   csvContent |-> list[i].csvContent,
                   duplicationFactor |->
                       IF list[i].duplicationFactor.kind = "number"
                       THEN list[i].duplicationFactor
                       ELSE [kind |-> "absent", num |-> 0]]]]

\* C21: whenever the persistence effect of a tab has run, the store key is
\* absent exactly when that tab's dataset list is empty, and otherwise the
\* store holds the JSON of the whole list; an empty array is never written,
\* and deleting the last dataset removes the key.
C21_StoreMirrorsList ==
    [][ \A t \in Tabs : PersistenceRan(t) =>
          /\ (localStorage'.kind = "absent") <=> (tabs'[t].datasets = <<>>)
          /\ tabs'[t].datasets # <<>> => localStorage' = JsonOf(tabs'[t].datasets)
          /\ localStorage' # [kind |-> "json", items |-> <<>>] ]_vars

\* C21 witness: the last dataset of a tab was deleted and the key is absent
C21_Witness ==
    /\ storeEvent.kind = "deleted"
    /\ tabs[storeEvent.tab].datasets = <<>>
    /\ localStorage.kind = "absent"
    /\ now > 1

\* the ids of the datasets of a list
IdsOf(list) == {list[i].id : i \in 1..Len(list)}

\* tab t was the last to write the store
WroteLast(t) ==
    /\ storeEvent.tab = t
    /\ storeEvent.kind \in {"loaded", "uploaded", "deleted"}

\* C25: when two tabs have loaded the store and changed their lists, the
\* store holds the whole list of the tab that wrote last and nothing else:
\* a dataset that only the other tab lists is not in the store, and a
\* dataset the other tab deleted is back if the last writer still lists it.
C25_LastWriteWins ==
    \A t \in Tabs : WroteLast(t) =>
        /\ IdsOf(localStorage.items) = IdsOf(tabs[t].datasets)
        /\ Len(localStorage.items) = Len(tabs[t].datasets)
        /\ \A u \in Tabs \ {t} :
              (IdsOf(tabs[u].datasets) \ IdsOf(tabs[t].datasets))
                  \cap IdsOf(localStorage.items) = {}

\* C25 witness: both tabs show the page; the other tab added a dataset after
\* both had loaded the earlier one, then this tab deleted the earlier one and
\* wrote last: the other tab's addition is not in the store
C25_Witness ==
    /\ \A t \in Tabs : tabs[t].mounted /\ ~tabs[t].loaded.active
    /\ storeEvent = [kind |-> "deleted", tab |-> "t2"]
    /\ IdsOf(tabs["t1"].datasets) = {0, 1}
    /\ IdsOf(tabs["t2"].datasets) = {}
    /\ localStorage.kind = "absent"

====
